---- MODULE Spec2Model ----
(***************************************************************************)
(* Model of the torch liquidation bot (packages/agent, with packages/bot   *)
(* where the two agree): the Liquidator, the liquidation half of the       *)
(* Monitor's score pass, the WalletProfiler cache and the scanner.         *)
(*                                                                         *)
(* Every `await` of the source is a point where an action ends: the        *)
(* external call is in flight and its return is a later action whose       *)
(* outcome (a value or a throw) is chosen by the environment.              *)
(***************************************************************************)
EXTENDS Integers, Sequences, FiniteSets, TLC

VARIABLES
    minProfitLamports,  \* Liquidator.minProfitLamports        liquidator.ts:16
    calls,              \* tryLiquidate invocations, in call order
    scorePc,            \* where Monitor.scoreAllPositions stands
    allScored,          \* allScored of the running score pass  monitor.ts:125
    liquidatable,       \* candidates of the pass not yet attempted
    failedPairs,        \* (mint, borrower) whose liquidation call failed in an
                        \* earlier score pass (history)
    now,                \* Date.now(), in units of PROFILE_COOLDOWN_MS
    cache,              \* WalletProfiler.cache, entries in insertion order
    profPc,             \* the await a profile() call is suspended at, or "idle"
    profAddr,           \* the address of the profile() call in progress
    profMint,           \* the mint of the profile() call in progress
    profSaid,           \* what verifySaid returned to the call in progress
    profResult,         \* what the profile() call that has just returned gave
    lastOp,             \* what the last cache operation was (history)
    evictedByAge,       \* addresses the last evictStale removed for their age
    evictedBySize,      \* addresses the last evictStale removed for the cap
    tokens,             \* Monitor.tokens, entries in insertion order
    histories,          \* the priceHistory array of each mint (the records of
                        \* a mint all refer to one array, scanner.ts:41)
    scanPc,             \* the await a discovery pass is suspended at, or "idle"
    scanResp,           \* tokens of the listing the pass has still to handle
    monitored,          \* the Map the pass is building         scanner.ts:26
    lastScan,           \* how the last discovery pass ended (history)
    prevMints,          \* mints of the working set that pass started from
    respMints,          \* mints of the listing that pass received
    tracked,            \* mints that pass has put into its Map (history)
    overflowed,         \* mints whose history has been trimmed (history)
    reported,           \* what torchGetLendingInfo gave for each mint in the
                        \* running or last discovery pass (history)
    threw,              \* mints whose lending info call has thrown (history)
    heldIn,             \* for each mint, the Maps whose record of it is the very
                        \* object the running score pass iterates over
    scoreQueue,         \* records the score pass has still to iterate over
    curToken,           \* the record scoreToken is working on      monitor.ts:172
    holders,            \* holders scoreToken has still to handle   monitor.ts:179
    curHealth,          \* health of the position just read         monitor.ts:181
    borrowers,          \* scoreToken's borrowers                   monitor.ts:177
    scored,             \* scoreToken's scored                      monitor.ts:174
    observed,           \* what the last scoreLoan call read of its token
    tokenLog,           \* what became of each entity of the score pass (history)
    pairLog,            \* what became of each holder of the score pass (history)
    scoreBegunOn,       \* lastScan as it was when the score pass began (history)
    running,            \* Monitor.running                          monitor.ts:60
    startPc,            \* where Monitor.start stands
    scanLoopPc,         \* where Monitor.scanLoop stands
    scoreLoopPc,        \* where Monitor.scoreLoop stands
    stopCalled,         \* stop() has been called (history)
    scanCount,          \* discovery pass bodies begun (history)
    scoreCount,         \* score pass bodies begun (history)
    overlapped,         \* kinds of pass that began while one was unfinished
    begunAfterStop,     \* kinds of pass that began after stop() was called
    earlier,            \* where the loops begun by an earlier start() call
                        \* on this Monitor stand
    loanPosition,       \* scoreLoan's position                risk-scorer.ts:25
    loanLending,        \* scoreLoan's token.lendingInfo       risk-scorer.ts:28
    loanHistory,        \* scoreLoan's token.priceHistory      risk-scorer.ts:28
    loanProfile,        \* scoreLoan's profile                 risk-scorer.ts:26
    scoredLoan,         \* what scoreLoan returned, or "none"  risk-scorer.ts:51
    earlierLoan         \* what the call before the last returned (history)

liqVars == <<minProfitLamports, calls, scorePc, allScored, liquidatable, failedPairs>>
cacheVars == <<now, cache, profPc, profAddr, profMint, profSaid, profResult, lastOp,
               evictedByAge, evictedBySize>>
scanVars == <<tokens, histories, scanPc, scanResp, monitored, lastScan, prevMints,
              respMints, tracked, overflowed, reported, threw, heldIn>>
scoringVars == <<scoreQueue, curToken, holders, curHealth, borrowers, scored, observed,
                 tokenLog, pairLog, scoreBegunOn>>
runVars == <<running, startPc, scanLoopPc, scoreLoopPc, stopCalled, scanCount, scoreCount,
             overlapped, begunAfterStop, earlier>>
riskVars == <<loanPosition, loanLending, loanHistory, loanProfile, scoredLoan, earlierLoan>>
vars == <<liqVars, cacheVars, scanVars, scoringVars, runVars, riskVars>>

(***************************************************************************)
(* Bounds of the model.                                                    *)
(***************************************************************************)
MaxProfit == 2          \* estimated profits range over 0..MaxProfit
MaxInFlight == 2        \* direct callers keep at most this many calls open

Mints == {"m1", "m2"}
Borrowers == {"b1", "b2"}
Healths == {"none", "healthy", "at_risk", "liquidatable"}
RiskScores == {40, 70}
Profits == 0 .. MaxProfit

\* ScoredLoan (bot/src/types.ts:42-52), reduced to the fields the liquidation path reads
ScoredLoan == [mint : Mints, borrower : Borrowers, health : Healths,
               estimatedProfitLamports : Profits, riskScore : RiskScores]

\* the `null` a tryLiquidate call returns
Null == [null |-> TRUE]

(***************************************************************************)
(* Liquidator.tryLiquidate                                                 *)
(***************************************************************************)
NotLiquidatableLax(loan) == loan.health \notin {"liquidatable", "at_risk"}

\* liquidator.ts:24  if (loan.position.health !== 'liquidatable')
NotLiquidatable(loan) == loan.health # "liquidatable"

ProfitTooLowStrict(loan, min) == loan.estimatedProfitLamports <= min

\* liquidator.ts:29  if (loan.estimatedProfitLamports < this.minProfitLamports)
ProfitTooLow(loan, min) == loan.estimatedProfitLamports < min

\* A tryLiquidate invocation: pc is the await it is suspended at ("done" once
\* it has returned), liq and conf tell what became of the two external calls.
Returned(loan, liq, conf, sig, result) ==
    [loan |-> loan, pc |-> "done", liq |-> liq, conf |-> conf, sig |-> sig,
     result |-> result]

\* liquidator.ts:23-44: the guards, then the call of torchLiquidateLoan
TryLiquidateEnter(loan) ==
    IF NotLiquidatable(loan) THEN Returned(loan, "no", "no", "", Null)
    ELSE IF ProfitTooLow(loan, minProfitLamports)
         THEN Returned(loan, "no", "no", "", Null)
         ELSE [loan |-> loan, pc |-> "liquidate", liq |-> "pending",
               conf |-> "no", sig |-> "", result |-> Null]

\* liquidator.ts:44-52 and 67-71: torchLiquidateLoan returns `outcome`
\* ("string": a signature, "other": a non-string value, "throw")
AfterLiquidate(c, outcome) ==
    IF outcome = "throw"
    THEN Returned(c.loan, "fail", "no", "", Null)
    ELSE [c EXCEPT !.pc = "confirm", !.liq = "ok", !.conf = "pending",
                   !.sig = IF outcome = "string" THEN "sig" ELSE "unknown"]

ConfirmedAlways(outcome) == TRUE

\* liquidator.ts:50-57  confirmed starts false, is confirmResult.confirmed
\* when torchConfirm returns, stays false when it throws
Confirmed(outcome) == outcome = "true"

\* liquidator.ts:52-66: torchConfirm returns `outcome` ("true"/"false": the
\* confirmed field of its result, "throw")
AfterConfirm(c, outcome) ==
    Returned(c.loan, "ok", outcome, c.sig,
             [mint |-> c.loan.mint, borrower |-> c.loan.borrower,
              signature |-> c.sig,
              profitLamports |-> c.loan.estimatedProfitLamports,
              confirmed |-> Confirmed(outcome)])

InFlight == {i \in DOMAIN calls : calls[i].pc # "done"}

LiquidateReturns ==
    \E i \in {j \in InFlight : calls[j].pc = "liquidate"},
       outcome \in {"string", "other", "throw"} :
        /\ calls' = [calls EXCEPT ![i] = AfterLiquidate(calls[i], outcome)]
        /\ UNCHANGED <<minProfitLamports, scorePc, allScored, liquidatable, failedPairs, cacheVars, riskVars, scanVars,
                   scoringVars, runVars>>

ConfirmReturns ==
    \E i \in {j \in InFlight : calls[j].pc = "confirm"},
       outcome \in {"true", "false", "throw"} :
        /\ calls' = [calls EXCEPT ![i] = AfterConfirm(calls[i], outcome)]
        /\ UNCHANGED <<minProfitLamports, scorePc, allScored, liquidatable, failedPairs, cacheVars, riskVars, scanVars,
                   scoringVars, runVars>>

(***************************************************************************)
(* The Liquidator called directly, as the test of design.md:490-517 does.  *)
(***************************************************************************)
\* the loans a direct caller passes: every health, every profit
DirectLoans ==
    {l \in ScoredLoan : l.mint = "m1" /\ l.borrower = "b1" /\ l.riskScore = 40}

DirectCall ==
    \E loan \in DirectLoans :
        /\ Len(calls) < MaxInFlight
        /\ calls' = Append(calls, TryLiquidateEnter(loan))
        /\ UNCHANGED <<minProfitLamports, scorePc, allScored, liquidatable, failedPairs, cacheVars, riskVars, scanVars,
                   scoringVars, runVars>>

\* the caller has read the result of a returned call and lets go of it
DirectForget ==
    /\ calls # <<>>
    /\ Head(calls).pc = "done"
    /\ calls' = Tail(calls)
    /\ UNCHANGED <<minProfitLamports, scorePc, allScored, liquidatable, failedPairs, cacheVars, riskVars, scanVars,
                   scoringVars, runVars>>

\* a WalletProfiler just constructed (wallet-profiler.ts:44), nothing in progress
CacheIdle ==
    /\ now = 0
    /\ cache = <<>>
    /\ profPc = "idle"
    /\ profAddr = ""
    /\ profMint = ""
    /\ profSaid = [how |-> "none"]
    /\ profResult = [by |-> "none"]
    /\ lastOp = "new"
    /\ evictedByAge = {}
    /\ evictedBySize = {}

\* a Monitor just constructed (monitor.ts:59-60), no discovery pass yet
ScanIdle ==
    /\ tokens = <<>>
    /\ histories = [m \in Mints |-> <<>>]
    /\ scanPc = "idle"
    /\ scanResp = <<>>
    /\ monitored = <<>>
    /\ lastScan = "none"
    /\ prevMints = {}
    /\ respMints = {}
    /\ tracked = {}
    /\ overflowed = {}
    /\ reported = [m \in Mints |-> "none"]
    /\ threw = {}
    /\ heldIn = [m \in Mints |-> {}]

\* no score pass has run: scoreAllPositions has no locals
ScoringIdle ==
    /\ scoreQueue = <<>>
    /\ curToken = Null
    /\ holders = <<>>
    /\ curHealth = "none"
    /\ borrowers = <<>>
    /\ scored = <<>>
    /\ observed = Null
    /\ tokenLog = [m \in Mints |-> "none"]
    /\ pairLog = [pr \in Mints \X Borrowers |-> "none"]
    /\ scoreBegunOn = "none"

\* a Monitor just constructed (monitor.ts:60), start() not called
RunIdle ==
    /\ running = FALSE
    /\ startPc = "new"
    /\ scanLoopPc = "off"
    /\ scoreLoopPc = "off"
    /\ stopCalled = FALSE
    /\ scanCount = 0
    /\ scoreCount = 0
    /\ overlapped = {}
    /\ begunAfterStop = {}
    /\ earlier = [scan |-> "off", score |-> "off"]

\* no scoreLoan call is under way
RiskIdle ==
    /\ loanPosition = "none"
    /\ loanLending = "none"
    /\ loanHistory = <<>>
    /\ loanProfile = "none"
    /\ scoredLoan = [by |-> "none"]
    /\ earlierLoan = [by |-> "none"]

InitLiquidator ==
    /\ minProfitLamports \in Profits
    /\ calls = <<>>
    /\ scorePc = "direct"
    /\ allScored = <<>>
    /\ liquidatable = <<>>
    /\ failedPairs = {}
    /\ CacheIdle
    /\ ScanIdle
    /\ ScoringIdle
    /\ RunIdle
    /\ RiskIdle

NextLiquidator == DirectCall \/ DirectForget \/ LiquidateReturns \/ ConfirmReturns

SpecLiquidator == InitLiquidator /\ [][NextLiquidator]_vars

\* C1: tryLiquidate on a position whose health is none, healthy or at_risk
\* has returned null, whatever the estimated profit, and has made neither
\* the external liquidation call nor the settlement report.
C1_SkipNotLiquidatable ==
    \A i \in DOMAIN calls :
        calls[i].loan.health \in {"none", "healthy", "at_risk"} =>
            /\ calls[i].pc = "done"
            /\ calls[i].result = Null
            /\ calls[i].liq = "no"
            /\ calls[i].conf = "no"

C1_Witness ==
    \E i \in DOMAIN calls :
        /\ calls[i].loan.health = "at_risk"
        /\ calls[i].loan.estimatedProfitLamports >= minProfitLamports
        /\ calls[i].loan.estimatedProfitLamports = MaxProfit
        /\ calls[i].pc = "done"

C6_ReportFailureKeepsOutcome ==
    \A i \in DOMAIN calls :
        (calls[i].liq = "ok" /\ calls[i].conf = "throw") =>
            /\ calls[i].pc = "done"
            /\ calls[i].result # Null
            /\ calls[i].result.mint = calls[i].loan.mint
            /\ calls[i].result.borrower = calls[i].loan.borrower
            /\ calls[i].result.confirmed = FALSE

C6_Witness ==
    \E i \in DOMAIN calls : calls[i].liq = "ok" /\ calls[i].conf = "throw"

(***************************************************************************)
(* Monitor.scoreAllPositions: the liquidation half of a score pass.        *)
(***************************************************************************)
\* the (entity, borrower) pairs in the order the pass scores them
PairOrder == <<<<"m1", "b1">>, <<"m2", "b2">>>>

Skip == [skip |-> TRUE]

RECURSIVE Compact(_)
Compact(s) ==
    IF s = <<>> THEN <<>>
    ELSE IF Head(s) = Skip THEN Compact(Tail(s))
         ELSE <<Head(s)>> \o Compact(Tail(s))

\* monitor.ts:127-135, 172-197: what the scoreToken calls of one pass add to
\* allScored: one ScoredLoan per pair whose position was read, profiled and
\* scored; a pair with health none (monitor.ts:183) or a failed lookup is left out
ScoredLists ==
    {Compact([i \in DOMAIN PairOrder |->
                IF h[i] = "none" THEN Skip
                ELSE [mint |-> PairOrder[i][1], borrower |-> PairOrder[i][2],
                      health |-> h[i], estimatedProfitLamports |-> p[i],
                      riskScore |-> r[i]]]) :
        h \in [DOMAIN PairOrder -> Healths],
        p \in [DOMAIN PairOrder -> Profits],
        r \in [DOMAIN PairOrder -> RiskScores]}

ByProfitAsc(a, b) == a.estimatedProfitLamports - b.estimatedProfitLamports

\* monitor.ts:157  (a, b) => b.estimatedProfitLamports - a.estimatedProfitLamports
ByProfitDesc(a, b) == b.estimatedProfitLamports - a.estimatedProfitLamports

\* monitor.ts:138  (a, b) => b.riskScore - a.riskScore
ByRiskDesc(a, b) == b.riskScore - a.riskScore

Compare(by, a, b) == IF by = "risk" THEN ByRiskDesc(a, b) ELSE ByProfitDesc(a, b)

\* Array.prototype.sort is stable: x, later in the array than all of s, goes
\* behind every element the comparator does not put after it
RECURSIVE Insert(_, _, _)
Insert(x, s, by) ==
    IF s = <<>> THEN <<x>>
    ELSE IF Compare(by, Head(s), x) <= 0
         THEN <<Head(s)>> \o Insert(x, Tail(s), by)
         ELSE <<x>> \o s

RECURSIVE Sort(_, _)
Sort(s, by) ==
    IF s = <<>> THEN <<>>
    ELSE Insert(s[Len(s)], Sort(SubSeq(s, 1, Len(s) - 1), by), by)

Pair(loan) == <<loan.mint, loan.borrower>>

IsCandidateNotFailed(l) == l.health = "liquidatable" /\ Pair(l) \notin failedPairs

\* config.ts:29  RISK_THRESHOLD, by default
riskThreshold == 60

\* monitor.ts:141  allScored.filter((l) => l.riskScore >= this.config.riskThreshold),
\* the positions the pass writes to the log
HighRisk(list) ==
    LET AtThreshold(l) == l.riskScore >= riskThreshold
    IN  SelectSeq(list, AtThreshold)

\* a selection that takes the candidates from the surfaced positions
IsCandidateSurfaced(l) == l.health = "liquidatable" /\ l.riskScore >= riskThreshold

\* monitor.ts:156  .filter((l) => l.position.health === 'liquidatable')
IsCandidate(l) == l.health = "liquidatable"

AwaitedNever == TRUE

\* monitor.ts:160  `await this.liquidator.tryLiquidate(...)`: the loop goes on
\* only when the call it made has returned
Awaited == InFlight = {}

\* monitor.ts:115-123: after the sleep the loop calls scoreAllPositions, which
\* returns at once when the working set is empty
ScoreBegin ==
    /\ scorePc = "sleep"
    /\ scorePc' = IF tokens = <<>> THEN "sleep" ELSE "scoring"
    /\ UNCHANGED <<minProfitLamports, calls, allScored, liquidatable, failedPairs, cacheVars, riskVars, scanVars,
                   scoringVars, runVars>>

\* monitor.ts:127-157: the scoring loop has filled allScored; sort by risk,
\* select the liquidatable ones and sort those by profit
ScoreTokens ==
    /\ scorePc = "scoring"
    /\ \E list \in ScoredLists :
        /\ allScored' = Sort(list, "risk")
        /\ liquidatable' = Sort(SelectSeq(allScored', IsCandidate), "profit")
        /\ scorePc' = "liquidating"
        /\ UNCHANGED <<minProfitLamports, calls, failedPairs, cacheVars, riskVars, scanVars,
                   scoringVars, runVars>>

\* a loop that tests this.running before each attempt and drops the
\* candidates still waiting once stop() was called
AttemptNextIfRunning ==
    /\ scorePc = "liquidating"
    /\ Awaited
    /\ liquidatable # <<>>
    /\ IF running
       THEN /\ calls' = Append(calls, TryLiquidateEnter(Head(liquidatable)))
            /\ liquidatable' = Tail(liquidatable)
       ELSE calls' = calls /\ liquidatable' = <<>>
    /\ UNCHANGED <<minProfitLamports, scorePc, allScored, failedPairs, cacheVars, riskVars, scanVars,
                   scoringVars, runVars>>

\* a loop that a failed attempt ends: the candidates still waiting are dropped
AttemptNextAborting ==
    /\ scorePc = "liquidating"
    /\ Awaited
    /\ liquidatable # <<>>
    /\ IF \E i \in DOMAIN calls : calls[i].liq = "fail"
       THEN calls' = calls /\ liquidatable' = <<>>
       ELSE /\ calls' = Append(calls, TryLiquidateEnter(Head(liquidatable)))
            /\ liquidatable' = Tail(liquidatable)
    /\ UNCHANGED <<minProfitLamports, scorePc, allScored, failedPairs, cacheVars, riskVars, scanVars,
                   scoringVars, runVars>>

\* monitor.ts:159-160: the next iteration of `for (const loan of liquidatable)`
AttemptNext ==
    /\ scorePc = "liquidating"
    /\ Awaited
    /\ liquidatable # <<>>
    /\ calls' = Append(calls, TryLiquidateEnter(Head(liquidatable)))
    /\ liquidatable' = Tail(liquidatable)
    /\ UNCHANGED <<minProfitLamports, scorePc, allScored, failedPairs, cacheVars, riskVars, scanVars,
                   scoringVars, runVars>>

\* monitor.ts:159-170, 118: the loop is over, scoreAllPositions returns, its
\* locals are gone, and the score loop sleeps
ScoreEnd ==
    /\ scorePc = "liquidating"
    /\ Awaited
    /\ liquidatable = <<>>
    /\ scorePc' = "sleep"
    /\ failedPairs' = failedPairs \cup
            {Pair(calls[i].loan) : i \in {j \in DOMAIN calls : calls[j].liq = "fail"}}
    /\ calls' = <<>>
    /\ allScored' = <<>>
    /\ UNCHANGED <<minProfitLamports, liquidatable, cacheVars, riskVars, scanVars,
                   scoringVars, runVars>>

\* the working set the initial discovery pass (monitor.ts:81-83) has left: it
\* is empty, or holds the entities of PairOrder with their first price sample
ScannedSets ==
    {<<>>,
     [i \in DOMAIN PairOrder |->
        [mint |-> PairOrder[i][1], active_loans |-> "positive", priceSol |-> 1,
         activeBorrowers |-> <<>>]]}

InitScore ==
    /\ minProfitLamports \in Profits
    /\ calls = <<>>
    /\ scorePc = "sleep"
    /\ allScored = <<>>
    /\ liquidatable = <<>>
    /\ failedPairs = {}
    /\ CacheIdle
    /\ tokens \in ScannedSets
    /\ histories = [m \in Mints |-> IF tokens = <<>> THEN <<>> ELSE <<1>>]
    /\ scanPc = "idle"
    /\ scanResp = <<>>
    /\ monitored = <<>>
    /\ lastScan = IF tokens = <<>> THEN "failed" ELSE "ok"
    /\ prevMints = {}
    /\ respMints = {tokens[i].mint : i \in DOMAIN tokens}
    /\ tracked = {tokens[i].mint : i \in DOMAIN tokens}
    /\ overflowed = {}
    /\ reported = [m \in Mints |-> IF tokens = <<>> THEN "none" ELSE "positive"]
    /\ threw = {}
    /\ heldIn = [m \in Mints |-> {}]
    /\ ScoringIdle
    /\ RunIdle
    /\ RiskIdle

NextScore ==
    ScoreBegin \/ ScoreTokens \/ AttemptNext \/ ScoreEnd \/ LiquidateReturns \/ ConfirmReturns

SpecScore == InitScore /\ [][NextScore]_vars

\* C3: within one score pass the attempts are made in descending order of
\* estimated profit: no attempt has a strictly higher profit than an earlier
\* attempt of the pass, nor has a candidate that still waits.
C3_HighestProfitFirst ==
    /\ \A i, j \in DOMAIN calls :
          i < j => calls[i].loan.estimatedProfitLamports >= calls[j].loan.estimatedProfitLamports
    /\ \A i \in DOMAIN calls, k \in DOMAIN liquidatable :
          calls[i].loan.estimatedProfitLamports >= liquidatable[k].estimatedProfitLamports

C3_Witness ==
    /\ Len(calls) = 2
    /\ calls[1].loan.estimatedProfitLamports > calls[2].loan.estimatedProfitLamports
    /\ calls[1].loan.riskScore < calls[2].loan.riskScore
    /\ Pair(calls[1].loan) = PairOrder[2]

\* C4: at every moment at most one liquidation attempt is in flight: no
\* attempt has started while the liquidation call or the settlement report of
\* another attempt was still pending.
C4_AtMostOneInFlight == Cardinality(InFlight) <= 1

C4_Witness ==
    /\ liquidatable # <<>>
    /\ Head(liquidatable).estimatedProfitLamports >= minProfitLamports
    /\ \E i \in InFlight : calls[i].pc = "confirm"

\* C5: a failed external liquidation call makes tryLiquidate return null with
\* no settlement report, and excludes nothing from later passes: every scored
\* position of a pass that is liquidatable and profitable is a waiting
\* candidate or has had its liquidation call made, also when the call for the
\* same position failed in an earlier pass.
C5_FailureReturnsNullAndRetries ==
    /\ \A i \in DOMAIN calls :
          calls[i].liq = "fail" =>
              calls[i].pc = "done" /\ calls[i].result = Null /\ calls[i].conf = "no"
    /\ scorePc = "liquidating" =>
          \A k \in DOMAIN allScored :
              (/\ allScored[k].health = "liquidatable"
               /\ allScored[k].estimatedProfitLamports >= minProfitLamports) =>
                  \/ \E q \in DOMAIN liquidatable : liquidatable[q] = allScored[k]
                  \/ \E i \in DOMAIN calls :
                        calls[i].loan = allScored[k] /\ calls[i].liq # "no"

C5_Witness ==
    /\ scorePc = "liquidating"
    /\ \E i \in DOMAIN calls :
          /\ Pair(calls[i].loan) \in failedPairs
          /\ calls[i].liq = "fail"
          /\ calls[i].pc = "done"

\* C33: liquidation candidates are selected by health alone: every scored
\* position of the pass with health liquidatable is handed to the liquidator
\* whatever its composite risk score and whatever the risk-surfacing
\* threshold, and no position with another health is handed to it.
C33_SelectedByHealth ==
    scorePc = "liquidating" =>
        /\ \A i \in DOMAIN calls :
              /\ calls[i].loan.health = "liquidatable"
              /\ \E k \in DOMAIN allScored : allScored[k] = calls[i].loan
        /\ \A q \in DOMAIN liquidatable : liquidatable[q].health = "liquidatable"
        /\ \A k \in DOMAIN allScored :
              allScored[k].health = "liquidatable" =>
                  \/ \E q \in DOMAIN liquidatable : liquidatable[q] = allScored[k]
                  \/ \E i \in DOMAIN calls : calls[i].loan = allScored[k]
        /\ Len(calls) + Len(liquidatable)
               = Cardinality({k \in DOMAIN allScored : allScored[k].health = "liquidatable"})

C33_Witness ==
    /\ scorePc = "liquidating"
    /\ liquidatable = <<>>
    /\ Len(HighRisk(allScored)) = 1
    /\ HighRisk(allScored)[1].health = "at_risk"
    /\ Len(calls) = 1
    /\ calls[1].loan.riskScore < riskThreshold

\* C34: within one score pass every scored position with health liquidatable
\* and estimated profit >= the minimum receives an external liquidation call
\* in that pass: an earlier attempt that fails, or an earlier candidate
\* skipped for low profit, does not abort the remaining attempts.
C34_AllCandidatesAttempted ==
    scorePc = "liquidating" /\ liquidatable = <<>> =>
        /\ \A k \in DOMAIN allScored :
              (/\ allScored[k].health = "liquidatable"
               /\ allScored[k].estimatedProfitLamports >= minProfitLamports) =>
                  \E i \in DOMAIN calls :
                      /\ calls[i].loan = allScored[k]
                      /\ calls[i].liq \in {"pending", "ok", "fail"}
        /\ \A i \in DOMAIN calls :
              calls[i].liq = "no" =>
                  calls[i].loan.estimatedProfitLamports < minProfitLamports

C34_Witness ==
    /\ scorePc = "liquidating"
    /\ liquidatable = <<>>
    /\ Len(calls) = 2
    /\ calls[1].liq = "fail"
    /\ calls[2].liq = "ok"
    /\ calls[2].pc = "done"

(***************************************************************************)
(* JavaScript numbers.  Every number the scorer and the profiler compute   *)
(* with is an IEEE-754 double: a product, a quotient or a sum is the exact *)
(* result rounded to 53 significant bits, ties to even, and this rounding  *)
(* decides what Math.round and Math.floor return at the boundaries.        *)
(*                                                                         *)
(* A natural number of any size is a sequence of limbs in base 2^14, the   *)
(* least significant first, without leading zero limbs.  A double is       *)
(* [nan, neg, m, e] and stands for (-1)^neg * m * 2^e, with m odd, or      *)
(* m = <<>> and e = 0 for zero.  Exponent overflow and underflow are out   *)
(* of reach of the values used here; -0 is not told from 0.  Carries are   *)
(* found by looking ahead, which keeps the evaluation shallow.             *)
(***************************************************************************)
LimbBits == 14

Limb == 2 ^ LimbBits

NatLimb(a, i) == IF i >= 1 /\ i <= Len(a) THEN a[i] ELSE 0

MaxOf(S) == CHOOSE hi \in S : \A other \in S : other <= hi

MinOf(S) == CHOOSE lo \in S : \A other \in S : lo <= other

\* without the zero limbs at the top
NatTrim(a) ==
    LET nonZero == {at \in DOMAIN a : a[at] # 0}
    IN  IF nonZero = {} THEN <<>> ELSE SubSeq(a, 1, MaxOf(nonZero))

NatZeros(n) == [at \in 1..n |-> 0]

\* n as limbs, for 0 <= n < 2^31
NatOf(n) == NatTrim(<<n % Limb, (n \div Limb) % Limb, n \div (Limb * Limb)>>)

\* the digits of the sum of limb sequences whose limbs add up to less than
\* 2 * Limb: the carry into a place is 1 if some lower place overflows and
\* every place between is Limb - 1
NatCarry(sums) ==
    NatTrim([at \in 1..(Len(sums) + 1) |->
        LET carry == IF \E from \in 1..(at - 1) :
                            /\ sums[from] >= Limb
                            /\ \A mid \in (from + 1)..(at - 1) : sums[mid] = Limb - 1
                     THEN 1 ELSE 0
        IN  (NatLimb(sums, at) + carry) % Limb])

NatAdd(a, b) ==
    NatCarry([at \in 1..(IF Len(a) > Len(b) THEN Len(a) ELSE Len(b)) |->
                NatLimb(a, at) + NatLimb(b, at)])

\* a - b, for a >= b: the borrow from a place is 1 if some lower place is
\* short and every place between is even
NatSub(a, b) ==
    NatTrim([at \in 1..Len(a) |->
        LET borrow == IF \E from \in 1..(at - 1) :
                             /\ a[from] < NatLimb(b, from)
                             /\ \A mid \in (from + 1)..(at - 1) : a[mid] = NatLimb(b, mid)
                      THEN 1 ELSE 0
        IN  (a[at] - NatLimb(b, at) - borrow + Limb) % Limb])

\* -1, 0 or 1 as a < b, a = b or a > b
NatCmp(a, b) ==
    IF Len(a) < Len(b) THEN -1
    ELSE IF Len(a) > Len(b) THEN 1
    ELSE LET differ == {at \in DOMAIN a : a[at] # b[at]}
         IN  IF differ = {} THEN 0
             ELSE IF a[MaxOf(differ)] < b[MaxOf(differ)] THEN -1 ELSE 1

\* a * k, for 0 <= k < 2^14: the low halves of the limb products plus their
\* high halves one place up
NatMulSmall(a, k) ==
    NatCarry([at \in 1..(Len(a) + 1) |->
                ((NatLimb(a, at) * k) % Limb) + ((NatLimb(a, at - 1) * k) \div Limb)])

\* the sum of the limb products of a and b that belong to place `at`, for a
\* of at most 4 limbs
NatColumn(a, b, at) ==
    NatLimb(a, 1) * NatLimb(b, at) + NatLimb(a, 2) * NatLimb(b, at - 1)
        + NatLimb(a, 3) * NatLimb(b, at - 2) + NatLimb(a, 4) * NatLimb(b, at - 3)

\* a * b, for a of at most 4 limbs: each column is below 2^30 and is three
\* limbs, which go to three places
NatMul(a, b) ==
    LET places == Len(a) + Len(b)
    IN  NatAdd(NatCarry([at \in 1..places |->
                            (NatColumn(a, b, at) % Limb)
                                + ((NatColumn(a, b, at - 1) \div Limb) % Limb)]),
               [at \in 1..places |-> NatColumn(a, b, at - 2) \div (Limb * Limb)])

IntBits(x) == CHOOSE width \in 0..LimbBits : x < 2 ^ width /\ (width = 0 \/ 2 ^ (width - 1) <= x)

\* the number of bits of a
NatBits(a) == IF a = <<>> THEN 0 ELSE LimbBits * (Len(a) - 1) + IntBits(a[Len(a)])

\* a * 2^s
NatShl(a, s) ==
    IF a = <<>> THEN <<>>
    ELSE NatZeros(s \div LimbBits) \o NatMulSmall(a, 2 ^ (s % LimbBits))

\* floor(a / 2^s)
NatShr(a, s) ==
    LET limbsOff == s \div LimbBits
        bitsOff  == s % LimbBits
    IN  IF limbsOff >= Len(a) THEN <<>>
        ELSE NatTrim([at \in 1..(Len(a) - limbsOff) |->
                        (a[at + limbsOff] \div 2 ^ bitsOff)
                            + (NatLimb(a, at + limbsOff + 1) % 2 ^ bitsOff)
                                  * 2 ^ (LimbBits - bitsOff)])

\* a mod 2^s
NatLow(a, s) ==
    LET limbsKept == s \div LimbBits
        bitsKept  == s % LimbBits
    IN  IF limbsKept >= Len(a) THEN a
        ELSE NatTrim(SubSeq(a, 1, limbsKept) \o <<a[limbsKept + 1] % 2 ^ bitsKept>>)

NatOdd(a) == a # <<>> /\ a[1] % 2 = 1

\* the trial quotient limb for rest / b, taken from the top limbs, for
\* rest < b * Limb and b with its top limb at least Limb / 2: it is right or
\* too big by at most 2
NatDivTrial(rest, b) ==
    LET trial == (NatLimb(rest, Len(b) + 1) * Limb + NatLimb(rest, Len(b))) \div b[Len(b)]
    IN  IF trial > Limb - 1 THEN Limb - 1 ELSE trial

NatDivDigit(rest, b, most) ==
    IF NatCmp(NatMulSmall(b, most), rest) <= 0 THEN most
    ELSE IF NatCmp(NatMulSmall(b, most - 1), rest) <= 0 THEN most - 1
    ELSE most - 2

NatDivTake(rest, b, digit) == <<digit, NatSub(rest, NatMulSmall(b, digit))>>

\* one limb of a quotient: <<floor(rest / b), rest mod b>>
NatDivLimb(rest, b) == NatDivTake(rest, b, NatDivDigit(rest, b, NatDivTrial(rest, b)))

NatDivPut(above, step) == <<<<step[1]>> \o above[1], step[2]>>

\* the next limb down, after <<quotient, remainder>> of the limbs above limb i
NatDivNext(a, b, i, above) ==
    IF above[2] = <<>> /\ a[i] = 0 THEN <<<<0>> \o above[1], <<>>>>
    ELSE NatDivPut(above, NatDivLimb(NatTrim(<<a[i]>> \o above[2]), b))

\* long division of a by b, the limbs of a from the top down to limb i:
\* <<quotient, remainder>>; the limbs above limb `first` are less than b
RECURSIVE NatDivLimbs(_, _, _, _)
NatDivLimbs(a, b, first, i) ==
    IF i > first THEN <<<<>>, SubSeq(a, first + 1, Len(a))>>
    ELSE NatDivNext(a, b, i, NatDivLimbs(a, b, first, i + 1))

NatDivUnlift(result, lift) == <<NatTrim(result[1]), NatShr(result[2], lift)>>

NatDivLifted(a, b, lift) ==
    NatDivUnlift(NatDivLimbs(a, b, IF Len(a) < Len(b) THEN 0 ELSE Len(a) - Len(b) + 1, 1),
                 lift)

\* <<floor(a / b), a mod b>> for b # 0: both are shifted up first so that the
\* top limb of b is at least Limb / 2
NatDivBy(a, b, lift) == NatDivLifted(NatShl(a, lift), NatShl(b, lift), lift)

NatDivMod(a, b) == NatDivBy(a, b, LimbBits - IntBits(b[Len(b)]))

\* the value of a as an integer, for a < 2^31
NatToInt(a) == NatLimb(a, 1) + Limb * NatLimb(a, 2) + Limb * Limb * NatLimb(a, 3)

NaN == [nan |-> TRUE, neg |-> FALSE, m |-> <<>>, e |-> 0]

Zero == [nan |-> FALSE, neg |-> FALSE, m |-> <<>>, e |-> 0]

\* the trailing zero limbs and the trailing zero bits go into the exponent
Canon(neg, m, e) ==
    IF m = <<>> THEN Zero
    ELSE LET lowest == MinOf({at \in DOMAIN m : m[at] # 0})
             zeros  == CHOOSE z \in 0..(LimbBits - 1) :
                           m[lowest] % 2 ^ z = 0 /\ (m[lowest] \div 2 ^ z) % 2 = 1
             shift  == LimbBits * (lowest - 1) + zeros
         IN  [nan |-> FALSE, neg |-> neg, m |-> NatShr(m, shift), e |-> e + shift]

RoundKept(neg, kept, e, sticky, toHalf) ==
    Canon(neg,
          IF toHalf > 0 \/ (toHalf = 0 /\ (sticky \/ NatOdd(kept)))
          THEN NatAdd(kept, <<1>>)
          ELSE kept,
          e)

RoundOff(neg, m, e, sticky, extra) ==
    IF extra <= 0 THEN Canon(neg, m, e)
    ELSE RoundKept(neg, NatShr(m, extra), e + extra, sticky,
                   NatCmp(NatLow(m, extra), NatShl(<<1>>, extra - 1)))

\* the double nearest to (-1)^neg * (m + f) * 2^e, where 0 < f < 1 if sticky
\* and f = 0 if not: the bits beyond 53 are dropped, up if they are more than
\* a half, ties to the even mantissa.  With sticky, m has more than 53 bits.
RoundToDouble(neg, m, e, sticky) == RoundOff(neg, m, e, sticky, NatBits(m) - 53)

\* a number literal or an integer value, |n| < 2^31
FromInt(n) == IF n < 0 THEN Canon(TRUE, NatOf(-n), 0) ELSE Canon(FALSE, NatOf(n), 0)

IsZero(x) == ~x.nan /\ x.m = <<>>

Neg(x) == IF x.nan \/ x.m = <<>> THEN x ELSE [x EXCEPT !.neg = ~x.neg]

\* Math.abs
Abs(x) == IF x.nan THEN x ELSE [x EXCEPT !.neg = FALSE]

SubUnits(xNeg, xUnits, yNeg, yUnits, unit, order) ==
    IF order = 0 THEN Zero
    ELSE IF order > 0 THEN Canon(xNeg, NatSub(xUnits, yUnits), unit)
    ELSE Canon(yNeg, NatSub(yUnits, xUnits), unit)

AddUnits(xNeg, xUnits, yNeg, yUnits, unit) ==
    IF xNeg = yNeg THEN Canon(xNeg, NatAdd(xUnits, yUnits), unit)
    ELSE SubUnits(xNeg, xUnits, yNeg, yUnits, unit, NatCmp(xUnits, yUnits))

AddAt(x, y, unit) ==
    AddUnits(x.neg, NatShl(x.m, x.e - unit), y.neg, NatShl(y.m, y.e - unit), unit)

\* x + y without rounding
AddExact(x, y) ==
    IF x.nan \/ y.nan THEN NaN
    ELSE AddAt(x, y, IF x.e < y.e THEN x.e ELSE y.e)

Rounded(x) == IF x.nan THEN NaN ELSE RoundToDouble(x.neg, x.m, x.e, FALSE)

\* x + y and x - y
Add(x, y) == Rounded(AddExact(x, y))

Sub(x, y) == Rounded(AddExact(x, Neg(y)))

\* x * y
Mul(x, y) ==
    IF x.nan \/ y.nan THEN NaN
    ELSE RoundToDouble(x.neg # y.neg, NatMul(x.m, y.m), x.e + y.e, FALSE)

DivRounded(x, y, scale, divided) ==
    RoundToDouble(x.neg # y.neg, divided[1], x.e - y.e - scale, divided[2] # <<>>)

DivScaled(x, y, scale) == DivRounded(x, y, scale, NatDivMod(NatShl(x.m, scale), y.m))

\* x / y for y # 0: the quotient is taken to 54 bits or more and what is left
\* over is the sticky bit
Div(x, y) ==
    IF x.nan \/ y.nan \/ (IsZero(x) /\ IsZero(y)) THEN NaN
    ELSE IF IsZero(x) THEN Zero
    ELSE DivScaled(x, y, IF 55 + NatBits(y.m) - NatBits(x.m) > 0
                         THEN 55 + NatBits(y.m) - NatBits(x.m)
                         ELSE 0)

Sign(x) == IF x.m = <<>> THEN 0 ELSE IF x.neg THEN -1 ELSE 1

\* -1, 0 or 1 as x < y, x = y or x > y, for numbers
Cmp(x, y) == Sign(AddExact(x, Neg(y)))

\* x < y, x > y, x === y; every comparison with NaN is false
Lt(x, y) == ~x.nan /\ ~y.nan /\ Cmp(x, y) < 0

Gt(x, y) == ~x.nan /\ ~y.nan /\ Cmp(x, y) > 0

Eq(x, y) == ~x.nan /\ ~y.nan /\ Cmp(x, y) = 0

\* Math.max, Math.min: NaN if an argument is NaN
MathMax(x, y) == IF x.nan \/ y.nan THEN NaN ELSE IF Cmp(x, y) >= 0 THEN x ELSE y

MathMin(x, y) == IF x.nan \/ y.nan THEN NaN ELSE IF Cmp(x, y) <= 0 THEN x ELSE y

\* Math.floor
MathFloor(x) ==
    IF x.nan \/ x.e >= 0 THEN x
    ELSE Canon(x.neg,
               IF x.neg THEN NatAdd(NatShr(x.m, -x.e), <<1>>) ELSE NatShr(x.m, -x.e),
               0)

\* Math.round: the integer nearest to x, a half going up
MathRound(x) == MathFloor(AddExact(x, [nan |-> FALSE, neg |-> FALSE, m |-> <<1>>, e |-> -1]))

\* utils.ts:20-22
clamp(value, min, max) == MathMin(MathMax(value, min), max)

\* x is an integer
IsInteger(x) == ~x.nan /\ x.e >= 0

\* min <= x <= max, for integers min and max
Within(x, min, max) == ~x.nan /\ Cmp(x, FromInt(min)) >= 0 /\ Cmp(x, FromInt(max)) <= 0

\* the value of an integer x, |x| < 2^31
ToInt(x) == IF x.neg THEN -NatToInt(NatShl(x.m, x.e)) ELSE NatToInt(NatShl(x.m, x.e))

\* what reading a field an object lacks gives
Undefined == [undefined |-> TRUE]

Field(object, name) == IF name \in DOMAIN object THEN object[name] ELSE Undefined

IsNullish(v) == "undefined" \in DOMAIN v \/ "null" \in DOMAIN v

\* the number an operand of * or / stands for: undefined is NaN, null is 0
ToNumber(v) ==
    IF "undefined" \in DOMAIN v THEN NaN
    ELSE IF "null" \in DOMAIN v THEN Zero
    ELSE v

\* v ?? d
Coalesce(v, d) == IF IsNullish(v) THEN d ELSE v

\* v === 0
IsZeroNumber(v) == ~IsNullish(v) /\ Eq(v, Zero)

\* a string where the source's type allows null as well
Str(s) == [string |-> s]

(***************************************************************************)
(* WalletProfiler: the profile cache.                                      *)
(*                                                                         *)
(* Time is counted in units of PROFILE_COOLDOWN_MS (5 min), so that        *)
(* MAX_CACHE_AGE_MS (30 min) is 6; MAX_CACHE_SIZE, 1000 in the source, is  *)
(* scaled to 2 so that the cap is reached with three addresses.            *)
(***************************************************************************)
PROFILE_COOLDOWN_MS == 1
MAX_CACHE_AGE_MS == 6
MAX_CACHE_SIZE == 2

MaxNow == 8             \* the clock stops at MaxNow

Addresses == {"b1", "b2", "b3"}

\* Map.prototype.has / get / set / size on the cache (a Map keeps its entries
\* in insertion order; set on a present key replaces the value in place)
CacheHas(c, address) == \E i \in DOMAIN c : c[i].address = address

CacheGet(c, address) == c[CHOOSE i \in DOMAIN c : c[i].address = address]

CacheSet(c, profile) ==
    IF CacheHas(c, profile.address)
    THEN [i \in DOMAIN c |-> IF c[i].address = profile.address THEN profile ELSE c[i]]
    ELSE Append(c, profile)

CacheKeys(c) == {c[i].address : i \in DOMAIN c}

IsStaleLate(profile, t) == t - profile.lastUpdated > MAX_CACHE_AGE_MS + 1

\* wallet-profiler.ts:151  if (now - profile.lastUpdated > MAX_CACHE_AGE_MS)
IsStale(profile, t) == t - profile.lastUpdated > MAX_CACHE_AGE_MS

\* wallet-profiler.ts:149-154: the age rule of evictStale
EvictAge(c, t) ==
    LET Fresh(profile) == ~IsStale(profile, t)
    IN  SelectSeq(c, Fresh)

\* wallet-profiler.ts:157  sort((a, b) => a[1].lastUpdated - b[1].lastUpdated),
\* a stable sort
RECURSIVE InsertByAge(_, _)
InsertByAge(x, s) ==
    IF s = <<>> THEN <<x>>
    ELSE IF Head(s).lastUpdated - x.lastUpdated <= 0
         THEN <<Head(s)>> \o InsertByAge(x, Tail(s))
         ELSE <<x>> \o s

RECURSIVE SortByAge(_)
SortByAge(c) ==
    IF c = <<>> THEN <<>>
    ELSE InsertByAge(c[Len(c)], SortByAge(SubSeq(c, 1, Len(c) - 1)))

\* the size rule taking the entries from the other end of the sorted list
EvictSizeNewest(c) ==
    IF Len(c) > MAX_CACHE_SIZE
    THEN LET toEvict == CacheKeys(SubSeq(SortByAge(c), MAX_CACHE_SIZE + 1, Len(c)))
             Kept(profile) == profile.address \notin toEvict
         IN  SelectSeq(c, Kept)
    ELSE c

\* wallet-profiler.ts:156-162: the size rule of evictStale
EvictSize(c) ==
    IF Len(c) > MAX_CACHE_SIZE
    THEN LET toEvict == CacheKeys(SubSeq(SortByAge(c), 1, Len(c) - MAX_CACHE_SIZE))
             Kept(profile) == profile.address \notin toEvict
         IN  SelectSeq(c, Kept)
    ELSE c

\* an evictStale without its size rule
EvictStaleByAge(c, t) == EvictAge(c, t)

\* wallet-profiler.ts:148-163
EvictStale(c, t) == EvictSize(EvictAge(c, t))

\* wallet-profiler.ts:55  Date.now() - cached.lastUpdated < PROFILE_COOLDOWN_MS
InCooldown(profile, t) == t - profile.lastUpdated < PROFILE_COOLDOWN_MS

\* verifySaid whose failure paths give the lowest tier instead of none
verifySaidLow(response) ==
    IF response.how # "ok" THEN [verified |-> FALSE, trustTier |-> Str("low")]
    ELSE [verified  |-> IF "verified" \in DOMAIN response.data
                         THEN response.data.verified ELSE FALSE,
          trustTier |-> IF "trust_tier" \in DOMAIN response.data
                         THEN Str(response.data.trust_tier) ELSE Null]

\* wallet-profiler.ts:29-41: verifySaid on what fetch did: it threw, or gave
\* a response that is not ok, or one whose JSON body is `data`
verifySaid(response) ==
    IF response.how # "ok" THEN [verified |-> FALSE, trustTier |-> Null]
    ELSE [verified  |-> IF "verified" \in DOMAIN response.data
                         THEN response.data.verified ELSE FALSE,
          trustTier |-> IF "trust_tier" \in DOMAIN response.data
                         THEN Str(response.data.trust_tier) ELSE Null]

\* wallet-profiler.ts:92
SentBy(messages, address) ==
    LET FromWallet(m) == m.sender = address
    IN  SelectSeq(messages, FromWallet)

\* wallet-profiler.ts:99-104: one turn of the loop
TallyStep(before, msg) ==
    IF "pnl_sol" \in DOMAIN msg
    THEN [wins      |-> IF Gt(msg.pnl_sol, Zero) THEN before.wins + 1 ELSE before.wins,
          losses    |-> IF Gt(msg.pnl_sol, Zero) THEN before.losses ELSE before.losses + 1,
          netPnlSol |-> Add(before.netPnlSol, msg.pnl_sol)]
    ELSE before

\* wallet-profiler.ts:94-105: wins, losses and netPnlSol after the first
\* `count` messages of the wallet
RECURSIVE Tally(_, _)
Tally(walletMsgs, count) ==
    IF count = 0 THEN [wins |-> 0, losses |-> 0, netPnlSol |-> Zero]
    ELSE TallyStep(Tally(walletMsgs, count - 1), walletMsgs[count])

\* wallet-profiler.ts:107-114
StatsOf(tally) ==
    [totalTrades |-> tally.wins + tally.losses,
     wins        |-> tally.wins,
     losses      |-> tally.losses,
     winRate     |-> IF tally.wins + tally.losses > 0
                     THEN Div(FromInt(tally.wins), FromInt(tally.wins + tally.losses))
                     ELSE Div(FromInt(1), FromInt(2)),
     netPnlSol   |-> tally.netPnlSol]

\* wallet-profiler.ts:83-119: analyzeTradeHistory on what torchGetMessages
\* did: it threw, or gave `messages`
analyzeTradeHistory(fetched, address) ==
    IF fetched.how # "ok"
    THEN [totalTrades |-> 0, wins |-> 0, losses |-> 0,
          winRate |-> Div(FromInt(1), FromInt(2)), netPnlSol |-> Zero]
    ELSE StatsOf(Tally(SentBy(fetched.messages, address),
                       Len(SentBy(fetched.messages, address))))

\* wallet-profiler.ts:126-131  tierRisk[trustTier ?? ''] ?? 50
tierRisk == [high |-> 10, medium |-> 40, low |-> 70]

TierBase(trustTier) ==
    IF Coalesce(trustTier, Str("")).string \in DOMAIN tierRisk
    THEN FromInt(tierRisk[Coalesce(trustTier, Str("")).string])
    ELSE FromInt(50)

\* wallet-profiler.ts:136  (0.5 - stats.winRate) * 40
WinRateModifier(stats) == Mul(Sub(Div(FromInt(1), FromInt(2)), stats.winRate), FromInt(40))

\* wallet-profiler.ts:141 without its Math.min
NetLossPenaltyUncapped(stats) == Mul(Abs(stats.netPnlSol), FromInt(5))

\* wallet-profiler.ts:141  Math.min(Math.abs(stats.netPnlSol) * 5, 20)
NetLossPenalty(stats) == MathMin(Mul(Abs(stats.netPnlSol), FromInt(5)), FromInt(20))

\* wallet-profiler.ts:131-143: risk before it is rounded
RawWalletRisk(risk, stats) ==
    IF stats.totalTrades > 0
    THEN IF Lt(stats.netPnlSol, Zero)
         THEN Add(Add(risk, WinRateModifier(stats)), NetLossPenalty(stats))
         ELSE Add(risk, WinRateModifier(stats))
    ELSE risk

\* wallet-profiler.ts:121-146
computeWalletRisk(trustTier, stats) ==
    clamp(MathRound(RawWalletRisk(TierBase(trustTier), stats)), FromInt(0), FromInt(100))

\* wallet-profiler.ts:70-77
WalletProfile(address, said, tradeStats, t) ==
    [address      |-> address,
     saidVerified |-> said.verified,
     trustTier    |-> said.trustTier,
     tradeStats   |-> tradeStats,
     riskScore    |-> computeWalletRisk(said.trustTier, tradeStats),
     lastUpdated  |-> t]

\* what fetch can do on the SAID API (wallet-profiler.ts:31-33)
SaidResponses ==
    {[how |-> "throws"], [how |-> "notOk"], [how |-> "ok", data |-> [error |-> "none"]]}
        \cup {[how |-> "ok", data |-> [verified |-> TRUE, trust_tier |-> tier]] :
                 tier \in {"high", "medium", "low", "none"}}

\* what torchGetMessages can do (wallet-profiler.ts:89): the messages are
\* those of borrower b1, of another sender, with and without pnl_sol
MessageLists ==
    LET Won  == [sender |-> "b1", pnl_sol |-> FromInt(2)]
        Lost == [sender |-> "b1", pnl_sol |-> Neg(Div(FromInt(1), FromInt(10)))]
        Sunk == [sender |-> "b1", pnl_sol |-> FromInt(-10)]
        Even == [sender |-> "b1", pnl_sol |-> Zero]
        Said == [sender |-> "b1"]
        Else == [sender |-> "b9", pnl_sol |-> FromInt(-10)]
    IN  {<<>>, <<Else, Said>>, <<Won>>, <<Lost>>, <<Sunk, Else>>, <<Won, Sunk>>,
         <<Won, Lost, Even>>}

MessageFetches == {[how |-> "throws"]} \cup {[how |-> "ok", messages |-> l] : l \in MessageLists}

\* wallet-profiler.ts:51-62: profile(agent, address, mint) up to its first
\* await: evict, then return the cached profile if it is in its cooldown,
\* else start the reputation lookup.  monitor.ts:187 awaits each profile()
\* call, so a call begins only when none is in progress.
ProfileCallFor(addresses, mints) ==
    /\ profPc = "idle"
    /\ \E address \in addresses, mint \in mints :
        LET evicted == EvictStale(cache, now)
        IN  /\ cache' = evicted
            /\ evictedByAge' = CacheKeys(cache) \ CacheKeys(EvictAge(cache, now))
            /\ evictedBySize' = CacheKeys(EvictAge(cache, now)) \ CacheKeys(evicted)
            /\ lastOp' = "evict"
            /\ profSaid' = [how |-> "none"]
            /\ IF CacheHas(evicted, address) /\ InCooldown(CacheGet(evicted, address), now)
               THEN /\ profPc' = "idle"
                    /\ profAddr' = ""
                    /\ profMint' = ""
                    /\ profResult' = [by |-> "cache", profile |-> CacheGet(evicted, address)]
               ELSE /\ profPc' = "said"
                    /\ profAddr' = address
                    /\ profMint' = mint
                    /\ profResult' = [by |-> "none"]
    /\ UNCHANGED <<now, liqVars, scanVars, riskVars, scoringVars, runVars>>

\* wallet-profiler.ts:62-65: verifySaid has returned (it catches its own
\* failures, wallet-profiler.ts:29-41); the trade messages are fetched next
SaidReturnsWith(responses) ==
    /\ profPc = "said"
    /\ profPc' = "trades"
    /\ \E response \in responses :
           profSaid' = [how |-> response.how, said |-> verifySaid(response)]
    /\ lastOp' = "other"
    /\ evictedByAge' = {}
    /\ evictedBySize' = {}
    /\ UNCHANGED <<now, cache, profAddr, profMint, profResult, liqVars, scanVars, riskVars,
                   scoringVars, runVars>>

\* wallet-profiler.ts:65-80: analyzeTradeHistory has returned (it catches its
\* own failures, wallet-profiler.ts:115-118); the profile is built with
\* lastUpdated = Date.now(), stored and returned
TradesReturnWith(fetches) ==
    /\ profPc = "trades"
    /\ \E fetched \in fetches :
           /\ cache' = CacheSet(cache, WalletProfile(profAddr, profSaid.said,
                                        analyzeTradeHistory(fetched, profAddr), now))
           /\ profResult' = [by |-> "lookup", said |-> profSaid.how,
                             profile |-> CacheGet(cache', profAddr)]
    /\ profPc' = "idle"
    /\ profAddr' = ""
    /\ profMint' = ""
    /\ profSaid' = [how |-> "none"]
    /\ lastOp' = "put"
    /\ evictedByAge' = {}
    /\ evictedBySize' = {}
    /\ UNCHANGED <<now, liqVars, scanVars, riskVars, scoringVars, runVars>>

\* the cache on its own: every borrower and mint, the reputation lookup and
\* the message fetch both failing
ProfileCall == ProfileCallFor(Addresses, Mints)

SaidReturns == SaidReturnsWith({[how |-> "throws"]})

TradesReturn == TradesReturnWith({[how |-> "throws"]})

\* the clock advances
Tick ==
    /\ now < MaxNow
    /\ now' = now + 1
    /\ lastOp' = "other"
    /\ profResult' = [by |-> "none"]
    /\ evictedByAge' = {}
    /\ evictedBySize' = {}
    /\ UNCHANGED <<cache, profPc, profAddr, profMint, profSaid, liqVars, scanVars, riskVars,
                   scoringVars, runVars>>

InitCache ==
    /\ minProfitLamports = 0
    /\ calls = <<>>
    /\ scorePc = "direct"
    /\ allScored = <<>>
    /\ liquidatable = <<>>
    /\ failedPairs = {}
    /\ CacheIdle
    /\ ScanIdle
    /\ ScoringIdle
    /\ RunIdle
    /\ RiskIdle

NextCache == ProfileCall \/ SaidReturns \/ TradesReturn \/ Tick

SpecCache == InitCache /\ [][NextCache]_vars

\* C7: immediately after every insertion into the profiler cache the number
\* of entries is at most the hard cap MAX_CACHE_SIZE.
C7_CapAfterPut == lastOp = "put" => Len(cache) <= MAX_CACHE_SIZE

\* C8: after an eviction, which every profile() call starts with, no entry
\* whose age exceeds MAX_CACHE_AGE_MS is left in the cache.
C8_StaleGoneAfterEvict ==
    lastOp = "evict" =>
        \A i \in DOMAIN cache : now - cache[i].lastUpdated <= MAX_CACHE_AGE_MS

C8_Witness ==
    /\ lastOp = "evict"
    /\ evictedByAge # {}
    /\ \E i \in DOMAIN cache : now - cache[i].lastUpdated = MAX_CACHE_AGE_MS

\* C22: profile(borrower, entity) called while the cache holds a profile for
\* that borrower whose age is below the cooldown returns that cached profile,
\* makes no reputation lookup and no trade-message fetch and leaves the cache
\* entry unchanged, whichever entity is passed.
C22_CooldownHit ==
    [][\A address \in Addresses :
           (/\ profPc = "idle"
            /\ lastOp' = "evict"
            /\ \/ profAddr' = address
               \/ profResult'.by = "cache" /\ profResult'.profile.address = address
            /\ CacheHas(cache, address)
            /\ InCooldown(CacheGet(cache, address), now))
               => /\ profPc' = "idle"
                  /\ profResult'.by = "cache"
                  /\ profResult'.profile = CacheGet(cache, address)
                  /\ CacheHas(cache', address)
                  /\ CacheGet(cache', address) = CacheGet(cache, address)]_vars

\* C32: when the cache still holds more than the hard cap after the age rule,
\* eviction removes exactly (size - cap) entries, those with the smallest
\* lastUpdated: every surviving entry is at least as recent as every entry
\* the size rule removed.
C32_SizeRuleRemovesOldest ==
    [][profPc = "idle" /\ lastOp' = "evict"
           /\ Len(cache) - Cardinality(evictedByAge') > MAX_CACHE_SIZE =>
              /\ Cardinality(evictedBySize')
                     = Len(cache) - Cardinality(evictedByAge') - MAX_CACHE_SIZE
              /\ Len(cache') = MAX_CACHE_SIZE
              /\ \A gone \in evictedBySize' : \A i \in DOMAIN cache' :
                     /\ CacheHas(cache, gone)
                     /\ cache'[i].lastUpdated >= CacheGet(cache, gone).lastUpdated
                     /\ cache'[i] = CacheGet(cache, cache'[i].address)]_vars

C32_Witness ==
    /\ lastOp = "evict"
    /\ evictedBySize # {}
    /\ evictedByAge = {}
    /\ Len(cache) = MAX_CACHE_SIZE
    /\ \E i \in DOMAIN cache : cache[i].lastUpdated = 0
    /\ \E i \in DOMAIN cache : cache[i].lastUpdated > 0

(***************************************************************************)
(* WalletProfiler: what a profile holds.  One borrower, whose reputation   *)
(* lookup and message fetch each can end in every way.                     *)
(***************************************************************************)
ProfilerMaxNow == 2     \* the clock of this specification stops here

ProfilerCall == ProfileCallFor({"b1"}, Mints)

ProfilerSaidReturns == SaidReturnsWith(SaidResponses)

ProfilerTradesReturn == TradesReturnWith(MessageFetches)

ProfilerTick == now < ProfilerMaxNow /\ Tick

NextProfiler == ProfilerCall \/ ProfilerSaidReturns \/ ProfilerTradesReturn \/ ProfilerTick

SpecProfiler == InitCache /\ [][NextProfiler]_vars

\* C23: when the reputation lookup throws or returns a non-OK response,
\* profile() raises no error: it returns a profile with verified = false and
\* tier = null whose wallet risk is the unverified base 50 adjusted only by
\* the trade-statistics modifiers, and exactly 50 when the borrower has no
\* trades.
C23_LookupFailureNeutral ==
    profResult.by = "lookup" /\ profResult.said \in {"throws", "notOk"} =>
        LET profile == profResult.profile
            stats   == profile.tradeStats
        IN  /\ profPc = "idle"
            /\ profile.saidVerified = FALSE
            /\ "null" \in DOMAIN profile.trustTier
            /\ stats.totalTrades = 0 => Eq(profile.riskScore, FromInt(50))
            /\ stats.totalTrades > 0 /\ ~Lt(stats.netPnlSol, Zero) =>
                   Eq(profile.riskScore,
                      clamp(MathRound(Add(FromInt(50), WinRateModifier(stats))),
                            FromInt(0), FromInt(100)))
            /\ stats.totalTrades > 0 /\ Lt(stats.netPnlSol, Zero) =>
                   Eq(profile.riskScore,
                      clamp(MathRound(Add(Add(FromInt(50), WinRateModifier(stats)),
                                          NetLossPenalty(stats))),
                            FromInt(0), FromInt(100)))

C23_Witness ==
    /\ profResult.by = "lookup"
    /\ profResult.said = "throws"
    /\ profResult.profile.tradeStats.totalTrades = 1
    /\ Eq(profResult.profile.riskScore, FromInt(90))

\* C24: for every tier (high, medium, low, unknown) and every trade
\* statistics value the wallet risk computed by the profiler is an integer in
\* [0,100]; the win-rate modifier contributes at most +-20 and the net-loss
\* penalty at most +20 to the tier base.
C24_WalletRiskInRange ==
    profResult.by = "lookup" =>
        LET stats == profResult.profile.tradeStats
        IN  /\ IsInteger(profResult.profile.riskScore)
            /\ Within(profResult.profile.riskScore, 0, 100)
            /\ Within(WinRateModifier(stats), -20, 20)
            /\ Within(NetLossPenalty(stats), 0, 20)
            /\ Within(Sub(RawWalletRisk(TierBase(profResult.profile.trustTier), stats),
                          TierBase(profResult.profile.trustTier)), -20, 40)

C24_Witness ==
    /\ profResult.by = "lookup"
    /\ "string" \in DOMAIN profResult.profile.trustTier
    /\ profResult.profile.trustTier.string = "low"
    /\ Gt(RawWalletRisk(TierBase(profResult.profile.trustTier),
                        profResult.profile.tradeStats), FromInt(100))
    /\ Eq(profResult.profile.riskScore, FromInt(100))

(***************************************************************************)
(* WalletProfiler: the cache with more borrowers than cap + 1, over a      *)
(* short stretch of time.                                                  *)
(***************************************************************************)
WideAddresses == Addresses \cup {"b4"}

WideProfileCall == ProfileCallFor(WideAddresses, {"m1"})

NextCacheWide == WideProfileCall \/ SaidReturns \/ TradesReturn \/ ProfilerTick

SpecCacheWide == InitCache /\ [][NextCacheWide]_vars

\* C39: in every reachable state of a monitor run the profiler cache holds at
\* most hard cap + 1 entries: each profile() call first evicts down to the
\* cap and then inserts at most one entry, and profile() calls of the single
\* score loop never overlap.
C39_CacheBounded ==
    /\ Len(cache) <= MAX_CACHE_SIZE + 1
    /\ lastOp = "evict" => Len(cache) <= MAX_CACHE_SIZE
    /\ profPc # "idle" => Len(cache) <= MAX_CACHE_SIZE
    /\ \A i, j \in DOMAIN cache : i # j => cache[i].address # cache[j].address

C39_Witness ==
    /\ Len(cache) = MAX_CACHE_SIZE + 1
    /\ lastOp = "put"
    /\ evictedBySize = {}
    /\ CacheKeys(cache) # Addresses
    /\ now > 0

(***************************************************************************)
(* scanForLendingMarkets and Monitor.scan: the discovery pass.             *)
(***************************************************************************)
PriceHistoryDepth == 2  \* config.priceHistoryDepth (config.ts:30, >= 2)

Prices == {1, 2}
ActiveLoans == {"positive", "null"}

\* Map.prototype.has / set on a Map of MonitoredToken keyed by mint
TokenHas(m, mint) == \E i \in DOMAIN m : m[i].mint = mint

TokenGet(m, mint) == m[CHOOSE i \in DOMAIN m : m[i].mint = mint]

TokenSet(m, token) ==
    IF TokenHas(m, token.mint)
    THEN [i \in DOMAIN m |-> IF m[i].mint = token.mint THEN token ELSE m[i]]
    ELSE Append(m, token)

TokenKeys(m) == {m[i].mint : i \in DOMAIN m}

\* scanner.ts:26  new Map<string, MonitoredToken>(existing)
CopyMap(existing) == existing

SpliceTail(s, start, deleteCount) == SubSeq(s, 1, Len(s) - deleteCount)

\* Array.prototype.splice(start, deleteCount), start counted from 0
Splice(s, start, deleteCount) ==
    SubSeq(s, 1, start) \o SubSeq(s, start + deleteCount + 1, Len(s))

\* scanner.ts:41-45: push the new price, trim to depth
PushAndTrim(priceHistory, priceSol, depth) ==
    LET pushed == Append(priceHistory, priceSol)
    IN  IF Len(pushed) > depth
        THEN Splice(pushed, 0, Len(pushed) - depth)
        ELSE pushed

\* the listings torchListTokens can return: tokens with distinct mints
Listings ==
    {<<>>} \cup
    {<<[mint |-> m, price_sol |-> p]>> : m \in Mints, p \in Prices} \cup
    {<<[mint |-> "m1", price_sol |-> p], [mint |-> "m2", price_sol |-> q]>> :
        p \in Prices, q \in Prices} \cup
    {<<[mint |-> "m2", price_sol |-> p], [mint |-> "m1", price_sol |-> q]>> :
        p \in Prices, q \in Prices}

\* the outcomes of one torchGetLendingInfo call: it throws, or it returns
\* lending info whose active_loans is 0, positive or null
LendingOutcomes == {"throw", "zero"} \cup ActiveLoans

NoActiveLoansOrUnknown(active_loans) == active_loans \in {"zero", "null"}

\* scanner.ts:35  if (lending.active_loans === 0) continue
NoActiveLoans(active_loans) == active_loans = "zero"

CaughtNever(outcome) == FALSE

\* scanner.ts:29, 63  try { ... } catch { }  inside the for loop: what the
\* handling of one token throws does not leave the loop
Caught(outcome) == outcome = "throw"

ScanFailedEmpty(existing) == <<>>

\* monitor.ts:102-112: when scanForLendingMarkets rejects, the assignment to
\* this.tokens has not happened
ScanFailed(existing) == existing

\* Object identity of the records the running score pass holds (heldIn):
\* new Map(existing) holds the records of existing (scanner.ts:26) ...
HeldAfterCopy(h) ==
    [m \in Mints |-> IF "tokens" \in h[m] THEN {"tokens", "monitored"} ELSE {}]

\* ... monitored.set puts a new object in the place of the record of the mint
\* (scanner.ts:47) ...
HeldAfterSet(h, mint) == [h EXCEPT ![mint] = @ \ {"monitored"}]

\* ... this.tokens becomes the Map the pass built (monitor.ts:103) ...
HeldAfterSwap(h) ==
    [m \in Mints |-> IF "monitored" \in h[m] THEN {"tokens"} ELSE {}]

\* ... or that Map is dropped
HeldAfterDrop(h) == [m \in Mints |-> h[m] \cap {"tokens"}]

\* monitor.ts:101-108, scanner.ts:22: a discovery pass starts and awaits
\* the token listing
ScanBegin ==
    /\ scanPc = "idle"
    /\ scanPc' = "listing"
    /\ reported' = [m \in Mints |-> "none"]
    /\ UNCHANGED <<tokens, histories, scanResp, monitored, lastScan, prevMints,
                   respMints, tracked, overflowed, threw, heldIn, liqVars, cacheVars, riskVars,
                   scoringVars, runVars>>

\* monitor.ts:109-112: torchListTokens throws, scan() logs, this.tokens stays
ListThrows ==
    /\ scanPc = "listing"
    /\ scanPc' = "idle"
    /\ lastScan' = "failed"
    /\ tokens' = ScanFailed(tokens)
    /\ UNCHANGED <<histories, scanResp, monitored, prevMints, respMints,
                   tracked, overflowed, reported, threw, heldIn, liqVars, cacheVars, riskVars,
                   scoringVars, runVars>>

\* scanner.ts:22-30, 68-69: the listing has arrived; copy the working set and
\* await the lending info of the first token (with an empty listing the copy
\* is returned and becomes this.tokens)
ListReturns ==
    /\ scanPc = "listing"
    /\ \E listing \in Listings :
        /\ prevMints' = TokenKeys(tokens)
        /\ respMints' = {listing[i].mint : i \in DOMAIN listing}
        /\ tracked' = {}
        /\ IF listing = <<>>
           THEN /\ tokens' = CopyMap(tokens)
                /\ heldIn' = HeldAfterSwap(HeldAfterCopy(heldIn))
                /\ scanPc' = "idle"
                /\ lastScan' = "ok"
                /\ UNCHANGED <<scanResp, monitored>>
           ELSE /\ monitored' = CopyMap(tokens)
                /\ heldIn' = HeldAfterCopy(heldIn)
                /\ scanResp' = listing
                /\ scanPc' = "lending"
                /\ UNCHANGED <<tokens, lastScan>>
    /\ UNCHANGED <<histories, overflowed, reported, threw, liqVars, cacheVars, riskVars,
                   scoringVars, runVars>>

\* scanner.ts:28-69, monitor.ts:103: torchGetLendingInfo of Head(scanResp) has
\* returned `outcome`; the token is handled, then the lending info of the
\* next token is awaited or, after the last one, the Map is returned and
\* becomes this.tokens
LendingReturns ==
    /\ scanPc = "lending"
    /\ \E outcome \in LendingOutcomes :
        LET token == Head(scanResp)
            kept == outcome # "throw" /\ ~NoActiveLoans(outcome)
            prevHas == TokenHas(tokens, token.mint)
            priceHistory ==
                PushAndTrim(IF prevHas THEN histories[token.mint] ELSE <<>>,
                            token.price_sol, PriceHistoryDepth)
            after ==
                IF kept
                THEN TokenSet(monitored,
                         [mint |-> token.mint, active_loans |-> outcome,
                          priceSol |-> token.price_sol,
                          activeBorrowers |->
                              IF prevHas THEN TokenGet(tokens, token.mint).activeBorrowers
                              ELSE <<>>])
                ELSE monitored
            held == IF kept THEN HeldAfterSet(heldIn, token.mint) ELSE heldIn
        IN  /\ reported' = [reported EXCEPT ![token.mint] = outcome]
            /\ threw' = IF outcome = "throw" THEN threw \cup {token.mint} ELSE threw
            /\ IF outcome = "throw" /\ ~Caught(outcome)
               THEN \* the throw leaves scanForLendingMarkets: monitor.ts:109-112
                    /\ tokens' = ScanFailed(tokens)
                    /\ monitored' = <<>>
                    /\ scanResp' = <<>>
                    /\ scanPc' = "idle"
                    /\ lastScan' = "failed"
                    /\ heldIn' = HeldAfterDrop(heldIn)
                    /\ UNCHANGED <<histories, overflowed, tracked>>
               ELSE /\ histories' = IF kept
                                    THEN [histories EXCEPT ![token.mint] = priceHistory]
                                    ELSE histories
                    /\ overflowed' =
                          IF kept /\ prevHas /\ Len(histories[token.mint]) >= PriceHistoryDepth
                          THEN overflowed \cup {token.mint} ELSE overflowed
                    /\ tracked' = IF kept THEN tracked \cup {token.mint} ELSE tracked
                    /\ scanResp' = Tail(scanResp)
                    /\ IF Tail(scanResp) = <<>>
                       THEN /\ tokens' = after
                            /\ monitored' = <<>>
                            /\ heldIn' = HeldAfterSwap(held)
                            /\ scanPc' = "idle"
                            /\ lastScan' = "ok"
                       ELSE /\ monitored' = after
                            /\ heldIn' = held
                            /\ UNCHANGED <<tokens, scanPc, lastScan>>
    /\ UNCHANGED <<prevMints, respMints, liqVars, cacheVars, riskVars, scoringVars, runVars>>

InitScan ==
    /\ minProfitLamports = 0
    /\ calls = <<>>
    /\ scorePc = "direct"
    /\ allScored = <<>>
    /\ liquidatable = <<>>
    /\ failedPairs = {}
    /\ CacheIdle
    /\ ScanIdle
    /\ ScoringIdle
    /\ RunIdle
    /\ RiskIdle

NextScan == ScanBegin \/ ListThrows \/ ListReturns \/ LendingReturns

SpecScan == InitScan /\ [][NextScan]_vars

LastN(s, n) == IF Len(s) > n THEN SubSeq(s, Len(s) - n + 1, Len(s)) ELSE s

\* C9: every price history has length at most the configured depth; when a
\* pass retains an entity its new sample is appended at the end of the
\* history, samples leaving from the front on overflow, and a history changes
\* in no other way: it is the most recent samples in arrival order.
C9_HistoryBounded ==
    [][\A m \in Mints :
          /\ Len(histories'[m]) <= PriceHistoryDepth
          /\ IF m \in tracked' \ tracked
             THEN histories'[m] =
                      LastN(Append(histories[m], Head(scanResp).price_sol),
                            PriceHistoryDepth)
             ELSE histories'[m] = histories[m]]_vars

C9_Witness ==
    \E m \in overflowed :
        /\ TokenHas(tokens, m)
        /\ Len(histories[m]) = PriceHistoryDepth
        /\ histories[m][1] # histories[m][PriceHistoryDepth]

\* C10: an entity of the previous working set that is absent from the
\* listing of a discovery pass is not in the working set the pass returns.
C10_AbsentDropped ==
    (scanPc = "idle" /\ lastScan = "ok") =>
        \A m \in prevMints \ respMints : ~TokenHas(tokens, m)

\* C11: every entity of the working set a discovery pass returns had a
\* positive or unknown active-loan count reported in that pass, and an entity
\* whose market reported zero active loans is not in the returned set, also
\* when it was in the previous working set.
C11_OnlyActiveReturned ==
    (scanPc = "idle" /\ lastScan = "ok") =>
        /\ \A m \in TokenKeys(tokens) : reported[m] \in ActiveLoans
        /\ \A m \in Mints : reported[m] = "zero" => ~TokenHas(tokens, m)

\* C12: when the lending info of an entity of the listing comes back with an
\* unknown (null) active-loan count, the entity is put into the Map the pass
\* builds with the price of the listing, that price is appended to its
\* history (trimmed to the depth), and the entity is in the working set the
\* pass returns.
C12_UnknownKept ==
    [][/\ \A m \in Mints :
            (reported[m] = "none" /\ reported'[m] = "null") =>
                LET built == IF scanPc' = "idle" THEN tokens' ELSE monitored'
                    before == IF TokenHas(tokens, m) THEN histories[m] ELSE <<>>
                IN  /\ TokenHas(built, m)
                    /\ TokenGet(built, m).priceSol = Head(scanResp).price_sol
                    /\ TokenGet(built, m).active_loans = "null"
                    /\ m \in tracked'
                    /\ histories'[m] =
                           LastN(Append(before, Head(scanResp).price_sol),
                                 PriceHistoryDepth)
       /\ (scanPc = "lending" /\ scanPc' = "idle") =>
              /\ lastScan' = "ok"
              /\ \A m \in Mints : reported'[m] = "null" => TokenHas(tokens', m)]_vars

C12_Witness ==
    /\ scanPc = "idle"
    /\ lastScan = "ok"
    /\ \E m \in Mints :
          /\ reported[m] = "null"
          /\ m \in prevMints
          /\ TokenHas(tokens, m)
          /\ Len(histories[m]) = PriceHistoryDepth
    /\ \E m \in Mints : reported[m] = "positive" /\ TokenHas(tokens, m)

\* C13: a lending info call that throws does not end the pass: a pass in
\* which a call threw has handled every entity of the listing and has
\* returned its working set; the entities whose call gave a positive or
\* unknown count are in it, with a new sample, the failing entity was left
\* out of this pass, and an earlier throw keeps no entity out of a later pass.
C13_LendingFailureIsolated ==
    /\ (scanPc = "idle" /\ \E m \in Mints : reported[m] = "throw") => lastScan = "ok"
    /\ (scanPc = "idle" /\ lastScan = "ok") =>
          \A m \in respMints :
              /\ reported[m] # "none"
              /\ reported[m] \in ActiveLoans => (m \in tracked /\ TokenHas(tokens, m))
              /\ reported[m] = "throw" => m \notin tracked
    /\ scanPc = "lending" =>
          \A m \in respMints :
              reported[m] = "none" <=> \E i \in DOMAIN scanResp : scanResp[i].mint = m

C13_Witness ==
    /\ scanPc = "idle"
    /\ lastScan = "ok"
    /\ \E m, n \in Mints :
          /\ reported[m] = "throw"
          /\ m \notin prevMints
          /\ ~TokenHas(tokens, m)
          /\ reported[n] \in ActiveLoans
          /\ n \in threw
          /\ TokenHas(tokens, n)

(***************************************************************************)
(* Monitor.scoreAllPositions and Monitor.scoreToken: the scoring half of a *)
(* score pass, one action for each await.                                  *)
(***************************************************************************)
MaxPasses == 2          \* each loop begins at most MaxPasses pass bodies

\* the holder lists getTokenHolders can return
HolderLists == {<<>>, <<"b1">>, <<"b1", "b2">>}

Range(s) == {s[i] : i \in DOMAIN s}

KeepsLoopingAlways(r) == TRUE

\* monitor.ts:95, 116  while (this.running)
KeepsLooping(r) == r

ScoreAwaitedNever == TRUE

\* monitor.ts:117  `await this.scoreAllPositions()`: the score loop goes on to
\* its sleep only when the pass it called has returned
ScoreAwaited == scorePc = "sleep"

HolderCaughtNever(outcome) == FALSE

\* monitor.ts:180, 190  try { ... } catch { }  inside the holder loop
HolderCaught(outcome) == outcome = "throw"

\* token.activeBorrowers = borrowers, seen through a Map that holds the object
SetBorrowers(m, mint, bs) ==
    [i \in DOMAIN m |->
        IF m[i].mint = mint THEN [m[i] EXCEPT !.activeBorrowers = bs] ELSE m[i]]

\* the records the pass iterates over are the objects this.tokens holds now;
\* the Map a discovery pass is building holds the same object for every mint
\* it has not replaced yet
HeldAtSnapshot ==
    [m \in Mints |->
        IF TokenHas(tokens, m)
        THEN IF scanPc = "lending" /\ m \notin tracked
             THEN {"tokens", "monitored"} ELSE {"tokens"}
        ELSE {}]

\* a pass body of `kind` begins; `busy` tells whether an earlier one of that
\* kind has not returned
BodyBegins(kind, busy) ==
    /\ overlapped' = IF busy THEN overlapped \cup {kind} ELSE overlapped
    /\ begunAfterStop' = IF stopCalled THEN begunAfterStop \cup {kind}
                         ELSE begunAfterStop

\* monitor.ts:122-129, 172-173: scoreAllPositions is called: with an empty
\* working set it returns at once, else it iterates over this.tokens.values()
\* and awaits getTokenHolders for the first record
ScoreBodyBegins ==
    /\ scoreCount' = scoreCount + 1
    /\ BodyBegins("score", scorePc # "sleep")
    /\ scoreBegunOn' = lastScan
    /\ observed' = Null
    /\ holders' = <<>>
    /\ curHealth' = "none"
    /\ borrowers' = <<>>
    /\ scored' = <<>>
    /\ allScored' = <<>>
    /\ tokenLog' = [m \in Mints |-> "none"]
    /\ pairLog' = [pr \in Mints \X Borrowers |-> "none"]
    /\ IF tokens = <<>>
       THEN /\ scorePc' = "sleep"
            /\ curToken' = Null
            /\ scoreQueue' = <<>>
            /\ heldIn' = [m \in Mints |-> {}]
       ELSE /\ scorePc' = "holders"
            /\ curToken' = Head(tokens)
            /\ scoreQueue' = Tail(tokens)
            /\ heldIn' = HeldAtSnapshot

\* monitor.ts:116-117: the sleep of the score loop is over; the loop tests
\* this.running and calls scoreAllPositions or ends
ScoreWake ==
    /\ scoreLoopPc = "sleep"
    /\ IF KeepsLooping(running)
       THEN /\ scoreCount < MaxPasses
            /\ scoreLoopPc' = "score"
            /\ ScoreBodyBegins
            /\ UNCHANGED <<minProfitLamports, calls, liquidatable, failedPairs>>
       ELSE /\ scoreLoopPc' = "exited"
            /\ UNCHANGED <<liqVars, heldIn, scoringVars, scoreCount, overlapped,
                           begunAfterStop>>
    /\ UNCHANGED <<tokens, histories, scanPc, scanResp, monitored, lastScan, prevMints,
                   respMints, tracked, overflowed, reported, threw, cacheVars, riskVars,
                   running, startPc, scanLoopPc, stopCalled, scanCount>>
    /\ UNCHANGED earlier

\* monitor.ts:117-118: scoreAllPositions has returned, the loop sleeps
ScoreLoopSleep ==
    /\ scoreLoopPc = "score"
    /\ ScoreAwaited
    /\ scoreLoopPc' = "sleep"
    /\ UNCHANGED <<liqVars, cacheVars, riskVars, scanVars, scoringVars, running, startPc,
                   scanLoopPc, stopCalled, scanCount, scoreCount, overlapped,
                   begunAfterStop>>
    /\ UNCHANGED earlier

\* monitor.ts:137-157: the loop over the records is over: sort by risk, select
\* the liquidatable positions, sort those by profit
Selection(all) ==
    /\ allScored' = Sort(all, "risk")
    /\ liquidatable' = Sort(SelectSeq(allScored', IsCandidate), "profit")
    /\ scorePc' = "liquidating"
    /\ curToken' = Null
    /\ scoreQueue' = <<>>

\* monitor.ts:127-129: the next record of the iteration, if there is one
NextToken(all) ==
    /\ holders' = <<>>
    /\ curHealth' = "none"
    /\ borrowers' = <<>>
    /\ scored' = <<>>
    /\ IF scoreQueue # <<>>
       THEN /\ curToken' = Head(scoreQueue)
            /\ scoreQueue' = Tail(scoreQueue)
            /\ scorePc' = "holders"
            /\ allScored' = all
            /\ UNCHANGED liquidatable
       ELSE Selection(all)

\* monitor.ts:195-196, 129-130: scoreToken stores the borrowers in the record
\* it was given and returns its scored loans, which are pushed to allScored
TokenDone(bs, sc) ==
    /\ tokens' = IF "tokens" \in heldIn[curToken.mint]
                 THEN SetBorrowers(tokens, curToken.mint, bs) ELSE tokens
    /\ monitored' = IF "monitored" \in heldIn[curToken.mint]
                    THEN SetBorrowers(monitored, curToken.mint, bs) ELSE monitored
    /\ NextToken(allScored \o sc)

\* monitor.ts:131-134: scoreToken has thrown; the record is logged and left
TokenAborted ==
    /\ UNCHANGED <<tokens, monitored>>
    /\ NextToken(allScored)

\* monitor.ts:179-193: the next holder, if there is one
NextHolder(bs, sc) ==
    IF Tail(holders) # <<>>
    THEN /\ holders' = Tail(holders)
         /\ curHealth' = "none"
         /\ borrowers' = bs
         /\ scored' = sc
         /\ scorePc' = "position"
         /\ UNCHANGED <<tokens, monitored, allScored, liquidatable, curToken, scoreQueue>>
    ELSE TokenDone(bs, sc)

\* monitor.ts:173, 131-134: getTokenHolders throws
HoldersThrow ==
    /\ scorePc = "holders"
    /\ tokenLog' = [tokenLog EXCEPT ![curToken.mint] = "throw"]
    /\ observed' = Null
    /\ TokenAborted
    /\ UNCHANGED <<minProfitLamports, calls, failedPairs, pairLog, scoreBegunOn,
                   histories, scanPc, scanResp, lastScan, prevMints, respMints,
                   tracked, overflowed, reported, threw, heldIn, cacheVars, riskVars, runVars>>

\* monitor.ts:173-181: getTokenHolders returns a list of holders
HoldersReturnFrom(lists) ==
    /\ scorePc = "holders"
    /\ \E list \in lists :
        /\ tokenLog' = [tokenLog EXCEPT ![curToken.mint] = "listed"]
        /\ pairLog' = [pr \in Mints \X Borrowers |->
                          IF pr[1] = curToken.mint /\ pr[2] \in Range(list)
                          THEN "pending" ELSE pairLog[pr]]
        /\ IF list = <<>>
           THEN TokenDone(<<>>, <<>>)
           ELSE /\ holders' = list
                /\ curHealth' = "none"
                /\ borrowers' = <<>>
                /\ scored' = <<>>
                /\ scorePc' = "position"
                /\ UNCHANGED <<tokens, monitored, allScored, liquidatable, curToken,
                               scoreQueue>>
    /\ observed' = Null
    /\ UNCHANGED <<minProfitLamports, calls, failedPairs, scoreBegunOn,
                   histories, scanPc, scanResp, lastScan, prevMints, respMints,
                   tracked, overflowed, reported, threw, heldIn, cacheVars, riskVars, runVars>>

HoldersReturn == HoldersReturnFrom(HolderLists)

\* monitor.ts:181-187: torchGetLoanPosition of Head(holders) returns `outcome`
\* ("throw", or the health of the position)
PositionReturns ==
    /\ scorePc = "position"
    /\ \E outcome \in {"throw"} \cup Healths :
        LET pr == <<curToken.mint, Head(holders)>>
        IN  IF outcome = "throw"
            THEN IF HolderCaught(outcome)
                 THEN /\ pairLog' = [pairLog EXCEPT ![pr] = "position threw"]
                      /\ NextHolder(borrowers, scored)
                 ELSE /\ pairLog' = [pairLog EXCEPT ![pr] = "position threw"]
                      /\ TokenAborted
            ELSE IF outcome = "none"
                 THEN /\ pairLog' = [pairLog EXCEPT ![pr] = "no position"]
                      /\ NextHolder(borrowers, scored)
                 ELSE /\ borrowers' = Append(borrowers, Head(holders))
                      /\ curHealth' = outcome
                      /\ scorePc' = "profile"
                      /\ UNCHANGED <<pairLog, tokens, monitored, allScored, liquidatable,
                                     curToken, scoreQueue, holders, scored>>
    /\ observed' = Null
    /\ UNCHANGED <<minProfitLamports, calls, failedPairs, tokenLog, scoreBegunOn,
                   histories, scanPc, scanResp, lastScan, prevMints, respMints,
                   tracked, overflowed, reported, threw, heldIn, cacheVars, riskVars, runVars>>

\* monitor.ts:187-189: profiler.profile returns (or throws) and scoreLoan,
\* which reads the lending info and the price history of the record
\* (risk-scorer.ts:28, 43), makes the ScoredLoan
ProfileReturns ==
    /\ scorePc = "profile"
    /\ \E outcome \in {"throw", "ok"}, profit \in Profits, risk \in RiskScores :
        LET pr == <<curToken.mint, Head(holders)>>
            loan == [mint |-> curToken.mint, borrower |-> Head(holders),
                     health |-> curHealth, estimatedProfitLamports |-> profit,
                     riskScore |-> risk]
        IN  IF outcome = "throw"
            THEN /\ profit = 0
                 /\ risk \in RiskScores
                 /\ observed' = Null
                 /\ IF HolderCaught(outcome)
                    THEN /\ pairLog' = [pairLog EXCEPT ![pr] = "profile threw"]
                         /\ NextHolder(borrowers, scored)
                    ELSE /\ pairLog' = [pairLog EXCEPT ![pr] = "profile threw"]
                         /\ TokenAborted
            ELSE /\ observed' = [loan |-> loan,
                                 active_loans |-> curToken.active_loans,
                                 priceSol |-> curToken.priceSol,
                                 priceHistory |-> histories[curToken.mint]]
                 /\ pairLog' = [pairLog EXCEPT ![pr] = "scored"]
                 /\ NextHolder(borrowers, Append(scored, loan))
    /\ UNCHANGED <<minProfitLamports, calls, failedPairs, tokenLog, scoreBegunOn,
                   histories, scanPc, scanResp, lastScan, prevMints, respMints,
                   tracked, overflowed, reported, threw, heldIn, cacheVars, riskVars, runVars>>

\* the scoring half alone: loans of one profit and one risk score, none of
\* which reaches the minimum profit
ScoringProfileReturns ==
    /\ ProfileReturns
    /\ observed' # Null =>
          /\ observed'.loan.estimatedProfitLamports = 0
          /\ observed'.loan.riskScore = 40

\* a monitor whose loops run: the initial discovery pass is over
InitScoring ==
    /\ minProfitLamports = 1
    /\ calls = <<>>
    /\ scorePc = "sleep"
    /\ allScored = <<>>
    /\ liquidatable = <<>>
    /\ failedPairs = {}
    /\ CacheIdle
    /\ tokens \in ScannedSets
    /\ histories = [m \in Mints |-> IF tokens = <<>> THEN <<>> ELSE <<1>>]
    /\ scanPc = "idle"
    /\ scanResp = <<>>
    /\ monitored = <<>>
    /\ lastScan = IF tokens = <<>> THEN "failed" ELSE "ok"
    /\ prevMints = {}
    /\ respMints = {tokens[i].mint : i \in DOMAIN tokens}
    /\ tracked = {tokens[i].mint : i \in DOMAIN tokens}
    /\ overflowed = {}
    /\ reported = [m \in Mints |-> IF tokens = <<>> THEN "none" ELSE "positive"]
    /\ threw = {}
    /\ heldIn = [m \in Mints |-> {}]
    /\ ScoringIdle
    /\ running = TRUE
    /\ startPc = "loops"
    /\ scanLoopPc = "sleep"
    /\ scoreLoopPc = "sleep"
    /\ stopCalled = FALSE
    /\ scanCount = 1
    /\ scoreCount = 0
    /\ overlapped = {}
    /\ begunAfterStop = {}
    /\ earlier = [scan |-> "off", score |-> "off"]
    /\ RiskIdle

NextScoring ==
    \/ ScoreWake
    \/ ScoreLoopSleep
    \/ HoldersThrow
    \/ HoldersReturn
    \/ PositionReturns
    \/ ScoringProfileReturns
    \/ AttemptNext
    \/ ScoreEnd

SpecScoring == InitScoring /\ [][NextScoring]_vars

\* C16: when the scoring loop of a pass is over and the pass selects the
\* positions to liquidate, every entity of the working set has been handled,
\* every holder of every entity whose holders were listed has been handled,
\* and allScored holds exactly the holders that were scored: a throw of
\* getTokenHolders has cost only that entity, a throw of the position lookup
\* or of the profiling only that holder.
C16_ScoringFailureIsolated ==
    scorePc = "liquidating" =>
        /\ \A m \in TokenKeys(tokens) : tokenLog[m] # "none"
        /\ \A pr \in Mints \X Borrowers :
              /\ pairLog[pr] # "pending"
              /\ pairLog[pr] = "scored" <=>
                     \E k \in DOMAIN allScored : Pair(allScored[k]) = pr

C16_Witness ==
    /\ scorePc = "liquidating"
    /\ tokenLog["m1"] = "throw"
    /\ pairLog[<<"m2", "b1">>] \in {"position threw", "profile threw"}
    /\ pairLog[<<"m2", "b2">>] = "scored"
    /\ Len(allScored) = 1

(***************************************************************************)
(* Monitor.start, stop, scanLoop and scoreLoop: one run of the monitor,    *)
(* with the discovery pass and the score pass interleaving at their awaits.*)
(***************************************************************************)
InitialScanAwaitedNever == TRUE

\* monitor.ts:83  `await this.scan()` in start(): the loops are started only
\* when the initial discovery pass has returned
InitialScanAwaited == scanPc = "idle"

\* monitor.ts:97  `await this.scan()` in scanLoop
LoopScanAwaited == scanPc = "idle"

\* monitor.ts:101-108, scanner.ts:20-22: scan() is called and awaits the
\* token listing
ScanBodyBegins ==
    /\ scanCount' = scanCount + 1
    /\ BodyBegins("scan", scanPc # "idle")
    /\ scanPc' = "listing"
    /\ reported' = [m \in Mints |-> "none"]
    /\ UNCHANGED <<tokens, histories, scanResp, monitored, lastScan, prevMints,
                   respMints, tracked, overflowed, threw, heldIn>>

\* monitor.ts:70-83: start() sets running and calls the initial scan
Start ==
    /\ startPc = "new"
    /\ running' = TRUE
    /\ startPc' = "scan"
    /\ ScanBodyBegins
    /\ UNCHANGED <<liqVars, cacheVars, riskVars, scoringVars, scanLoopPc, scoreLoopPc,
                   stopCalled, scoreCount>>
    /\ UNCHANGED earlier

\* monitor.ts:86, 94-96, 115-117: the initial scan has returned; scanLoop()
\* runs to its sleep, then scoreLoop() runs to the first await of its pass
StartLoops ==
    /\ startPc = "scan"
    /\ InitialScanAwaited
    /\ startPc' = "loops"
    /\ scanLoopPc' = IF KeepsLooping(running) THEN "sleep" ELSE "exited"
    /\ IF KeepsLooping(running)
       THEN /\ scoreLoopPc' = "score"
            /\ ScoreBodyBegins
            /\ UNCHANGED <<minProfitLamports, calls, liquidatable, failedPairs>>
       ELSE /\ scoreLoopPc' = "exited"
            /\ UNCHANGED <<liqVars, heldIn, scoringVars, scoreCount, overlapped,
                           begunAfterStop>>
    /\ UNCHANGED <<tokens, histories, scanPc, scanResp, monitored, lastScan, prevMints,
                   respMints, tracked, overflowed, reported, threw, cacheVars, riskVars,
                   running, stopCalled, scanCount>>
    /\ UNCHANGED earlier

\* monitor.ts:89-92
Stop ==
    /\ running
    /\ running' = FALSE
    /\ stopCalled' = TRUE
    /\ UNCHANGED <<liqVars, cacheVars, riskVars, scanVars, scoringVars, startPc, scanLoopPc,
                   scoreLoopPc, scanCount, scoreCount, overlapped, begunAfterStop>>
    /\ UNCHANGED earlier

\* monitor.ts:96-97: the sleep of the scan loop is over and scan() is called
ScanWake ==
    /\ scanLoopPc = "sleep"
    /\ scanLoopPc' = "scan"
    /\ ScanBodyBegins
    /\ UNCHANGED <<liqVars, cacheVars, riskVars, scoringVars, running, startPc, scoreLoopPc,
                   stopCalled, scoreCount>>
    /\ UNCHANGED earlier

\* a scan loop that a failed discovery pass ends
ScanLoopNextFatal ==
    /\ scanLoopPc = "scan"
    /\ LoopScanAwaited
    /\ IF KeepsLooping(running) /\ lastScan # "failed"
       THEN scanCount < MaxPasses /\ scanLoopPc' = "sleep"
       ELSE scanLoopPc' = "exited"
    /\ UNCHANGED <<liqVars, cacheVars, riskVars, scanVars, scoringVars, running, startPc,
                   scoreLoopPc, stopCalled, scanCount, scoreCount, overlapped,
                   begunAfterStop>>
    /\ UNCHANGED earlier

\* monitor.ts:95-97: scan() has returned; the loop tests this.running and
\* sleeps or ends
ScanLoopNext ==
    /\ scanLoopPc = "scan"
    /\ LoopScanAwaited
    /\ IF KeepsLooping(running)
       THEN scanCount < MaxPasses /\ scanLoopPc' = "sleep"
       ELSE scanLoopPc' = "exited"
    /\ UNCHANGED <<liqVars, cacheVars, riskVars, scanVars, scoringVars, running, startPc,
                   scoreLoopPc, stopCalled, scanCount, scoreCount, overlapped,
                   begunAfterStop>>
    /\ UNCHANGED earlier

\* monitor.ts:86: both loops have ended, the promise of start() resolves
StartResolves ==
    /\ startPc = "loops"
    /\ scanLoopPc = "exited"
    /\ scoreLoopPc = "exited"
    /\ startPc' = "resolved"
    /\ UNCHANGED <<liqVars, cacheVars, riskVars, scanVars, scoringVars, running, scanLoopPc,
                   scoreLoopPc, stopCalled, scanCount, scoreCount, overlapped,
                   begunAfterStop>>
    /\ UNCHANGED earlier

\* one run of the monitor over one entity with at most one holder, whose
\* active-loan count is known and whose position, if any, is liquidatable
RunMints == {"m1"}

RunListReturns == ListReturns /\ respMints' \subseteq RunMints

RunLendingReturns == LendingReturns /\ \A m \in Mints : reported'[m] # "null"

RunHoldersReturn == HoldersReturn /\ Len(holders') <= 1

RunPositionReturns == PositionReturns /\ curHealth' \in {"none", "liquidatable"}

RunProfileReturns ==
    /\ ProfileReturns
    /\ observed' # Null =>
          /\ observed'.loan.estimatedProfitLamports = 0
          /\ observed'.loan.riskScore = 40

InitMonitor ==
    /\ minProfitLamports = 0
    /\ calls = <<>>
    /\ scorePc = "sleep"
    /\ allScored = <<>>
    /\ liquidatable = <<>>
    /\ failedPairs = {}
    /\ CacheIdle
    /\ ScanIdle
    /\ ScoringIdle
    /\ RunIdle
    /\ RiskIdle

NextMonitor ==
    \/ Start
    \/ StartLoops
    \/ Stop
    \/ StartResolves
    \/ ScanWake
    \/ ScanLoopNext
    \/ ListThrows
    \/ RunListReturns
    \/ RunLendingReturns
    \/ ScoreWake
    \/ ScoreLoopSleep
    \/ HoldersThrow
    \/ RunHoldersReturn
    \/ RunPositionReturns
    \/ RunProfileReturns
    \/ AttemptNext
    \/ LiquidateReturns
    \/ ConfirmReturns
    \/ ScoreEnd

SpecMonitor == InitMonitor /\ [][NextMonitor]_vars

\* what the code's scheduling gives: every external call and every sleep
\* returns, and a continuation that can run does run; start() and stop() are
\* the caller's and are not forced
ScanSteps ==
    ScanWake \/ ScanLoopNext \/ ListThrows \/ RunListReturns \/ RunLendingReturns

ScoreSteps ==
    \/ ScoreWake
    \/ ScoreLoopSleep
    \/ HoldersThrow
    \/ RunHoldersReturn
    \/ RunPositionReturns
    \/ RunProfileReturns
    \/ AttemptNext
    \/ LiquidateReturns
    \/ ConfirmReturns
    \/ ScoreEnd

StartSteps == StartLoops \/ StartResolves

SpecMonitorFair ==
    /\ InitMonitor
    /\ [][NextMonitor]_vars
    /\ WF_vars(ScanSteps)
    /\ WF_vars(ScoreSteps)
    /\ WF_vars(StartSteps)

\* C14: a discovery pass whose listing call throws leaves the working set and
\* the price histories as they were (its start changes neither), and a score
\* pass that begins after it iterates over that retained working set, not
\* over an empty one.
C14_FailedScanRetains ==
    [][/\ (scanPc = "idle" /\ scanPc' = "listing") =>
              (tokens' = tokens /\ histories' = histories)
       /\ (scanPc = "listing" /\ scanPc' = "idle" /\ lastScan' = "failed") =>
              (tokens' = tokens /\ histories' = histories)
       /\ (scoreCount' = scoreCount + 1 /\ lastScan = "failed" /\ tokens # <<>>) =>
              /\ scorePc' = "holders"
              /\ curToken' = Head(tokens)
              /\ scoreQueue' = Tail(tokens)]_vars

C14_Witness ==
    /\ scanPc = "idle"
    /\ lastScan = "failed"
    /\ scoreBegunOn = "failed"
    /\ scorePc = "holders"
    /\ curToken # Null
    /\ TokenHas(tokens, curToken.mint)

\* C15: what a scoreLoan call reads of its entity comes from one completed
\* discovery pass: the price history it reads ends with the price of the
\* record it reads, as the history does in the result of every completed pass.
C15_ScoreReadsOnePass ==
    observed # Null =>
        /\ observed.priceHistory # <<>>
        /\ observed.priceHistory[Len(observed.priceHistory)] = observed.priceSol

\* C17: no score pass has begun and neither loop has started before the
\* initial discovery pass of start() has returned.
C17_InitialScanFirst ==
    /\ startPc \in {"new", "scan"} =>
          (scoreCount = 0 /\ scanLoopPc = "off" /\ scoreLoopPc = "off" /\ scanCount <= 1)
    /\ (startPc \in {"loops", "resolved"} \/ scoreCount > 0
            \/ scanLoopPc # "off" \/ scoreLoopPc # "off") =>
          (lastScan # "none" /\ scanCount >= 1)

C17_Witness ==
    /\ startPc = "loops"
    /\ scanCount = 1
    /\ scoreCount = 1
    /\ lastScan = "ok"
    /\ scorePc = "holders"
    /\ scanLoopPc = "sleep"

C19_NoBodyAfterStop == begunAfterStop = {}

\* C20: when stop() has been called and every external call and every sleep
\* returns, both loops exit and the promise of start() resolves.
C20_StopEndsRun == stopCalled ~> (startPc = "resolved")

C20_Witness ==
    /\ stopCalled
    /\ startPc = "resolved"
    /\ scanLoopPc = "exited"
    /\ scoreLoopPc = "exited"
    /\ scanCount = 2
    /\ scoreCount >= 1

C36_StopDoesNotPreempt ==
    /\ (stopCalled /\ scanPc # "idle") ~> (scanPc = "idle")
    /\ (stopCalled /\ scorePc # "sleep") ~> (scorePc = "sleep")
    /\ \A pr \in Mints \X Borrowers :
           (stopCalled /\ \E q \in DOMAIN liquidatable : Pair(liquidatable[q]) = pr)
               ~> (\E i \in DOMAIN calls : Pair(calls[i].loan) = pr)
    /\ [][scorePc = "liquidating" /\ scorePc' = "sleep" =>
              /\ liquidatable = <<>>
              /\ \A k \in DOMAIN allScored :
                     allScored[k].health = "liquidatable" =>
                         \E i \in DOMAIN calls :
                             calls[i].loan = allScored[k] /\ calls[i].pc = "done"]_vars

C36_Witness ==
    /\ stopCalled
    /\ ~running
    /\ scanPc = "lending"
    /\ scorePc = "liquidating"
    /\ liquidatable # <<>>
    /\ calls = <<>>

\* C37: after a score pass has finished scoring an entity without a
\* borrower-discovery failure, the record of that entity in the current
\* working set carries the borrower list found by that pass (the holders
\* whose position health is not none), also when a discovery pass swapped the
\* working set while the score pass was suspended.
C37_BorrowersStored ==
    [][(/\ scorePc \in {"holders", "position", "profile"}
        /\ curToken' # curToken
        /\ tokenLog'[curToken.mint] = "listed"
        /\ TokenHas(tokens', curToken.mint))
           => TokenGet(tokens', curToken.mint).activeBorrowers = borrowers]_vars

(***************************************************************************)
(* One score pass over one entity two of whose largest token accounts have *)
(* the same owner: getTokenHolders pushes the owner of each account        *)
(* (monitor.ts:37-44), so the address comes twice.                         *)
(***************************************************************************)
RepeatedHolderLists == {<<"b1", "b1">>}

RepeatedHoldersReturn == HoldersReturnFrom(RepeatedHolderLists)

NextRepeated ==
    \/ Start
    \/ RunListReturns
    \/ RunLendingReturns
    \/ StartLoops
    \/ RepeatedHoldersReturn
    \/ RunPositionReturns
    \/ RunProfileReturns
    \/ AttemptNext
    \/ LiquidateReturns
    \/ ConfirmReturns
    \/ ScoreEnd
    \/ ScoreLoopSleep

SpecRepeated == InitMonitor /\ [][NextRepeated]_vars

\* C38: within one score pass at most one liquidation attempt is made for any
\* (entity, borrower) pair, whatever list of holder addresses the external
\* borrower discovery returns.
C38_OneAttemptPerPair ==
    \A i, j \in DOMAIN calls :
        (i < j /\ calls[i].liq # "no" /\ calls[j].liq # "no") =>
            Pair(calls[i].loan) # Pair(calls[j].loan)

(***************************************************************************)
(* A second start() call on the same Monitor.  start() tests nothing       *)
(* (monitor.ts:70-71), so it can be called whenever the caller likes; here *)
(* it is called once more, at a moment when no pass is in progress.        *)
(***************************************************************************)
\* a loop function that has been called and has not returned
Alive(pc) == pc \notin {"off", "exited"}

\* monitor.ts:70-83: start() is called again: it sets running and calls the
\* initial scan.  The loops of the earlier call stay where they are: one that
\* is in its sleep is still there when the sleep ends.
StartAgain ==
    /\ startPc \in {"loops", "resolved"}
    /\ earlier = [scan |-> "off", score |-> "off"]
    /\ scanPc = "idle"
    /\ scorePc = "sleep"
    /\ scanLoopPc \in {"sleep", "exited"}
    /\ scoreLoopPc \in {"sleep", "exited"}
    /\ earlier' = [scan |-> scanLoopPc, score |-> scoreLoopPc]
    /\ running' = TRUE
    /\ startPc' = "scan"
    /\ scanLoopPc' = "off"
    /\ scoreLoopPc' = "off"
    /\ ScanBodyBegins
    /\ UNCHANGED <<liqVars, cacheVars, riskVars, scoringVars, stopCalled, scoreCount>>

NextLifecycle == NextMonitor \/ StartAgain

SpecLifecycle == InitMonitor /\ [][NextLifecycle]_vars

\* C21: once stop() has been called the monitor is never Running again, and
\* no loop begun by an earlier start() call is still alive next to a loop of
\* the same kind begun by a later one.
C21_LifecycleForward ==
    /\ stopCalled => ~running
    /\ ~(Alive(earlier.scan) /\ Alive(scanLoopPc))
    /\ ~(Alive(earlier.score) /\ Alive(scoreLoopPc))

(***************************************************************************)
(* The risk scorer: scoreLoan and the four factors.  It is a pure function *)
(* of the position, the token's lending info and price history and the     *)
(* borrower's profile.  The bot (packages/bot/src/risk-scorer.ts) and the  *)
(* agent (the copy that imports solana-agent-kit-torch-market) differ only *)
(* in that the agent reads collateral_value_sol and current_ltv_bps        *)
(* through `?? 0`.  Of the returned record the model keeps riskScore,      *)
(* factors and estimatedProfitLamports.                                    *)
(***************************************************************************)
\* risk-scorer.ts:15-20
WEIGHTS ==
    [ltvProximity   |-> Div(FromInt(4), FromInt(10)),
     priceMomentum  |-> Div(FromInt(3), FromInt(10)),
     walletRisk     |-> Div(FromInt(2), FromInt(10)),
     interestBurden |-> Div(FromInt(1), FromInt(10))]

\* risk-scorer.ts:82-86
computeLtvProximity(position, lending) ==
    IF IsZeroNumber(lending.liquidation_threshold_bps) THEN FromInt(0)
    ELSE LET ratio == Div(ToNumber(Field(position, "current_ltv_bps")),
                          lending.liquidation_threshold_bps)
         IN  clamp(MathRound(Mul(ratio, FromInt(100))), FromInt(0), FromInt(100))

\* the agent's copy, lines 83-87: (position.current_ltv_bps ?? 0)
agentComputeLtvProximity(position, lending) ==
    IF IsZeroNumber(lending.liquidation_threshold_bps) THEN FromInt(0)
    ELSE LET ratio == Div(Coalesce(Field(position, "current_ltv_bps"), FromInt(0)),
                          lending.liquidation_threshold_bps)
         IN  clamp(MathRound(Mul(ratio, FromInt(100))), FromInt(0), FromInt(100))

\* risk-scorer.ts:103-108: one turn of the loop
RegressionStep(before, i, price) ==
    [sumX  |-> Add(before.sumX, i),
     sumY  |-> Add(before.sumY, price),
     sumXY |-> Add(before.sumXY, Mul(i, price)),
     sumX2 |-> Add(before.sumX2, Mul(i, i))]

\* risk-scorer.ts:98-108: the four sums after the first `count` turns of the
\* loop, whose index i is count - 1 in the last of them
RECURSIVE RegressionSums(_, _)
RegressionSums(priceHistory, count) ==
    IF count = 0
    THEN [sumX |-> Zero, sumY |-> Zero, sumXY |-> Zero, sumX2 |-> Zero]
    ELSE RegressionStep(RegressionSums(priceHistory, count - 1), FromInt(count - 1),
                        priceHistory[count])

\* risk-scorer.ts:114-120
\* the score with the slope's sign taken the other way: a rising price would
\* raise the risk
MomentumOfSlopeRising(slope, avgPrice) ==
    IF IsZeroNumber(avgPrice) THEN FromInt(50)
    ELSE clamp(MathRound(Add(FromInt(50), Mul(Div(slope, avgPrice), FromInt(1000)))),
               FromInt(0), FromInt(100))

MomentumOfSlope(slope, avgPrice) ==
    IF IsZeroNumber(avgPrice) THEN FromInt(50)
    ELSE LET relativeSlopePerTick == Div(slope, avgPrice)
             score == Sub(FromInt(50), Mul(relativeSlopePerTick, FromInt(1000)))
         IN  clamp(MathRound(score), FromInt(0), FromInt(100))

\* risk-scorer.ts:110-114: slope and avgPrice from the sums of the loop
MomentumOfSums(n, sums) ==
    MomentumOfSlope(Div(Sub(Mul(n, sums.sumXY), Mul(sums.sumX, sums.sumY)),
                        Sub(Mul(n, sums.sumX2), Mul(sums.sumX, sums.sumX))),
                    Div(sums.sumY, n))

\* risk-scorer.ts:93-121
computePriceMomentum(priceHistory) ==
    IF Len(priceHistory) < 2 THEN FromInt(50)
    ELSE MomentumOfSums(FromInt(Len(priceHistory)),
                        RegressionSums(priceHistory, Len(priceHistory)))

\* risk-scorer.ts:126-130
computeInterestBurden(position) ==
    IF IsZeroNumber(Field(position, "collateral_value_sol")) THEN FromInt(100)
    ELSE LET ratio == Div(position.accrued_interest,
                          ToNumber(Field(position, "collateral_value_sol")))
         IN  clamp(MathRound(Mul(ratio, FromInt(1000))), FromInt(0), FromInt(100))

\* the agent's copy, lines 127-132
agentComputeInterestBurden(position) ==
    LET collateralValue == Coalesce(Field(position, "collateral_value_sol"), FromInt(0))
    IN  IF IsZeroNumber(collateralValue) THEN FromInt(100)
        ELSE LET ratio == Div(position.accrued_interest, collateralValue)
             IN  clamp(MathRound(Mul(ratio, FromInt(1000))), FromInt(0), FromInt(100))

\* risk-scorer.ts:64-76
computeFactors(position, lending, priceHistory, profile) ==
    [ltvProximity   |-> computeLtvProximity(position, lending),
     priceMomentum  |-> computePriceMomentum(priceHistory),
     walletRisk     |-> profile.riskScore,
     interestBurden |-> computeInterestBurden(position)]

agentComputeFactors(position, lending, priceHistory, profile) ==
    [ltvProximity   |-> agentComputeLtvProximity(position, lending),
     priceMomentum  |-> computePriceMomentum(priceHistory),
     walletRisk     |-> profile.riskScore,
     interestBurden |-> agentComputeInterestBurden(position)]

\* risk-scorer.ts:30-39: the sum is taken from left to right
\* the weighted sum without Math.round
CompositeScoreUnrounded(factors) ==
    clamp(Add(Add(Add(Mul(factors.ltvProximity, WEIGHTS.ltvProximity),
                      Mul(factors.priceMomentum, WEIGHTS.priceMomentum)),
                  Mul(factors.walletRisk, WEIGHTS.walletRisk)),
              Mul(factors.interestBurden, WEIGHTS.interestBurden)),
          FromInt(0), FromInt(100))

CompositeScore(factors) ==
    clamp(MathRound(Add(Add(Add(Mul(factors.ltvProximity, WEIGHTS.ltvProximity),
                                Mul(factors.priceMomentum, WEIGHTS.priceMomentum)),
                            Mul(factors.walletRisk, WEIGHTS.walletRisk)),
                        Mul(factors.interestBurden, WEIGHTS.interestBurden))),
          FromInt(0), FromInt(100))

\* risk-scorer.ts:42-49, for the collateral value the build reads
EstimatedProfit(collateralValue, lending) ==
    LET bonusPct            == Div(lending.liquidation_bonus_bps, FromInt(10000))
        grossProfit         == Mul(collateralValue, bonusPct)
        txFeeLamports       == FromInt(5000)
        transferFeeLamports == MathFloor(Mul(collateralValue, Div(FromInt(1), FromInt(100))))
    IN  MathMax(FromInt(0),
                Sub(Sub(MathFloor(grossProfit), txFeeLamports), transferFeeLamports))

\* risk-scorer.ts:51-61: the record returned
ScoredRecord(factors, estimatedProfitLamports) ==
    [riskScore |-> CompositeScore(factors),
     factors |-> factors,
     estimatedProfitLamports |-> estimatedProfitLamports]

\* a scoreLoan that keeps the score of its last call and averages the new
\* one with it
scoreLoanSmoothed(token, position, profile) ==
    LET fresh == ScoredRecord(computeFactors(position, token.lendingInfo,
                                             token.priceHistory, profile),
                              EstimatedProfit(ToNumber(Field(position,
                                                             "collateral_value_sol")),
                                              token.lendingInfo))
    IN  IF scoredLoan.by = "none" THEN fresh
        ELSE [fresh EXCEPT !.riskScore = MathRound(Div(Add(fresh.riskScore, FromInt(100)),
                                                       FromInt(2)))]

\* risk-scorer.ts:22-62
scoreLoan(token, position, profile) ==
    ScoredRecord(computeFactors(position, token.lendingInfo, token.priceHistory, profile),
               EstimatedProfit(ToNumber(Field(position, "collateral_value_sol")),
                               token.lendingInfo))

\* the agent's copy, lines 22-63
agentScoreLoan(token, position, profile) ==
    ScoredRecord(agentComputeFactors(position, token.lendingInfo, token.priceHistory,
                                   profile),
               EstimatedProfit(Coalesce(Field(position, "collateral_value_sol"),
                                        FromInt(0)),
                               token.lendingInfo))

LAMPORTS_PER_SOL == 1000000000

\* the inputs the scorer is tried on
LtvValues == {725, 3380, 7000}

InterestValues == {0, 23}

CollateralValues ==
    {FromInt(0), FromInt(1000), FromInt(11400), Mul(FromInt(10), FromInt(LAMPORTS_PER_SOL))}

ThresholdValues == {0, 5000, 6500}

BonusValues == {1000, 5800}

RiskValues == {2, 50}

\* positions that have a collateral value, and positions that lack one
ValuedPositions ==
    {[current_ltv_bps |-> FromInt(ltv), accrued_interest |-> FromInt(interest),
      collateral_value_sol |-> value] :
        ltv \in LtvValues, interest \in InterestValues, value \in CollateralValues}

UnvaluedPositions ==
    {[current_ltv_bps |-> FromInt(ltv), accrued_interest |-> FromInt(interest)] :
        ltv \in LtvValues, interest \in InterestValues}

LendingInfos ==
    {[liquidation_threshold_bps |-> FromInt(threshold),
      liquidation_bonus_bps |-> FromInt(bonus)] :
        threshold \in ThresholdValues, bonus \in BonusValues}

Third == Div(FromInt(1), FromInt(3))

PriceHistories ==
    {<<>>, <<FromInt(5)>>, <<FromInt(5), FromInt(5)>>, <<FromInt(0), FromInt(0)>>,
     <<Third, Third, Third>>, <<FromInt(8), FromInt(4), FromInt(2)>>,
     <<FromInt(1000), FromInt(1048)>>}

Profiles == {[riskScore |-> FromInt(risk)] : risk \in RiskValues}

InitRisk ==
    /\ minProfitLamports = 0
    /\ calls = <<>>
    /\ scorePc = "direct"
    /\ allScored = <<>>
    /\ liquidatable = <<>>
    /\ failedPairs = {}
    /\ CacheIdle
    /\ ScanIdle
    /\ ScoringIdle
    /\ RunIdle
    /\ \/ loanPosition \in ValuedPositions
       \/ loanPosition \in UnvaluedPositions
    /\ loanLending \in LendingInfos
    /\ loanHistory \in PriceHistories
    /\ loanProfile \in Profiles
    /\ scoredLoan = [by |-> "none"]
    /\ earlierLoan = [by |-> "none"]

\* the bot scores the loan
ScoreLoan ==
    /\ scoredLoan.by = "none"
    /\ scoredLoan' = [by |-> "bot",
                      loan |-> scoreLoan([lendingInfo |-> loanLending,
                                          priceHistory |-> loanHistory],
                                         loanPosition, loanProfile)]
    /\ UNCHANGED <<loanPosition, loanLending, loanHistory, loanProfile, earlierLoan,
                   liqVars, cacheVars, scanVars, scoringVars, runVars>>

\* the agent scores the loan
AgentScoreLoan ==
    /\ scoredLoan.by = "none"
    /\ scoredLoan' = [by |-> "agent",
                      loan |-> agentScoreLoan([lendingInfo |-> loanLending,
                                               priceHistory |-> loanHistory],
                                              loanPosition, loanProfile)]
    /\ UNCHANGED <<loanPosition, loanLending, loanHistory, loanProfile, earlierLoan,
                   liqVars, cacheVars, scanVars, scoringVars, runVars>>

NextRisk == ScoreLoan \/ AgentScoreLoan

SpecRisk == InitRisk /\ [][NextRisk]_vars

(***************************************************************************)
(* scoreLoan called twice on the same token record, position and profile.  *)
(* The second call reads the arguments as the first one left them.         *)
(***************************************************************************)
InitRescore ==
    /\ InitRisk
    /\ Len(loanHistory) = 3
    /\ Eq(loanProfile.riskScore, FromInt(50))

\* the bot scores the loan once more
ScoreLoanAgain ==
    /\ scoredLoan.by = "bot"
    /\ earlierLoan.by = "none"
    /\ earlierLoan' = scoredLoan
    /\ scoredLoan' = [by |-> "bot",
                      loan |-> scoreLoan([lendingInfo |-> loanLending,
                                          priceHistory |-> loanHistory],
                                         loanPosition, loanProfile)]
    /\ UNCHANGED <<loanPosition, loanLending, loanHistory, loanProfile,
                   liqVars, cacheVars, scanVars, scoringVars, runVars>>

\* the agent scores the loan once more
AgentScoreLoanAgain ==
    /\ scoredLoan.by = "agent"
    /\ earlierLoan.by = "none"
    /\ earlierLoan' = scoredLoan
    /\ scoredLoan' = [by |-> "agent",
                      loan |-> agentScoreLoan([lendingInfo |-> loanLending,
                                               priceHistory |-> loanHistory],
                                              loanPosition, loanProfile)]
    /\ UNCHANGED <<loanPosition, loanLending, loanHistory, loanProfile,
                   liqVars, cacheVars, scanVars, scoringVars, runVars>>

NextRescore == ScoreLoan \/ AgentScoreLoan \/ ScoreLoanAgain \/ AgentScoreLoanAgain

SpecRescore == InitRescore /\ [][NextRescore]_vars

C25_CompositeInRange ==
    scoredLoan.by # "none" =>
        LET factors == scoredLoan.loan.factors
        IN  (\A name \in DOMAIN factors : Within(factors[name], 0, 100))
                => /\ IsInteger(scoredLoan.loan.riskScore)
                   /\ Within(scoredLoan.loan.riskScore, 0, 100)

C25_Witness ==
    /\ scoredLoan.by = "bot"
    /\ \A name \in DOMAIN scoredLoan.loan.factors :
           Within(scoredLoan.loan.factors[name], 0, 100)
    /\ Eq(scoredLoan.loan.factors.ltvProximity, FromInt(100))
    /\ Eq(scoredLoan.loan.factors.priceMomentum, FromInt(100))
    /\ Eq(scoredLoan.loan.factors.interestBurden, FromInt(100))
    /\ Eq(scoredLoan.loan.riskScore, FromInt(90))

\* C26: the composite score equals round(0.40 * ltvProximity + 0.30 *
\* priceMomentum + 0.20 * walletRisk + 0.10 * interestBurden) clamped to
\* [0,100] for all factor values, a half rounding up; in particular factors
\* (52, 50, 50, 0) give 46.
C26_CompositeFormula ==
    scoredLoan.by # "none" =>
        LET factors == scoredLoan.loan.factors
            tenfold == 4 * ToInt(factors.ltvProximity) + 3 * ToInt(factors.priceMomentum)
                           + 2 * ToInt(factors.walletRisk) + ToInt(factors.interestBurden)
            rounded == (tenfold + 5) \div 10
        IN  (\A name \in DOMAIN factors :
                 IsInteger(factors[name]) /\ Within(factors[name], 0, 100))
                => /\ IsInteger(scoredLoan.loan.riskScore)
                   /\ ToInt(scoredLoan.loan.riskScore)
                          = IF rounded > 100 THEN 100 ELSE rounded

\* C27: for every position and every lending parameter set, the estimated
\* profit computed by scoreLoan is >= 0, also when the fees exceed the gross
\* bonus and when the collateral value is zero or missing.
C27_ProfitNonNegative ==
    scoredLoan.by # "none" =>
        /\ ~scoredLoan.loan.estimatedProfitLamports.nan
        /\ ~scoredLoan.loan.estimatedProfitLamports.neg

\* C28: the estimated profit equals max(0, floor(collateralValue *
\* liquidationBonusBps / 10000) - 5000 - floor(collateralValue / 100)) in
\* lamports for all inputs; for 10 SOL and 1000 bps it is 899,995,000.
C28_ProfitFormula ==
    scoredLoan.by = "agent" =>
        LET value    == Coalesce(Field(loanPosition, "collateral_value_sol"), FromInt(0))
            lamports == NatShl(value.m, value.e)
            bonus    == NatShl(loanLending.liquidation_bonus_bps.m,
                               loanLending.liquidation_bonus_bps.e)
            gross    == NatDivMod(NatMul(bonus, lamports), NatOf(10000))[1]
            fees     == NatAdd(NatOf(5000), NatDivMod(lamports, NatOf(100))[1])
            profit   == IF NatCmp(gross, fees) > 0 THEN NatSub(gross, fees) ELSE <<>>
            claimed  == scoredLoan.loan.estimatedProfitLamports
        IN  /\ IsInteger(claimed)
            /\ ~claimed.neg
            /\ NatShl(claimed.m, claimed.e) = profit

\* C29: LTV proximity = clamp(round(100 * currentLTV / liquidationThreshold),
\* 0, 100), and 0 when the threshold is 0; interest burden = clamp(round(1000
\* * accruedInterest / collateralValue), 0, 100), and 100 when the collateral
\* value is 0; both lie in [0,100] for all non-negative inputs.
C29_RatioFactors ==
    scoredLoan.by = "bot" /\ "collateral_value_sol" \in DOMAIN loanPosition =>
        LET ltv       == ToInt(loanPosition.current_ltv_bps)
            threshold == ToInt(loanLending.liquidation_threshold_bps)
            nearest   == (200 * ltv + threshold) \div (2 * threshold)
            proximity == IF threshold = 0 THEN 0
                         ELSE IF nearest > 100 THEN 100 ELSE nearest
            value     == NatShl(loanPosition.collateral_value_sol.m,
                                loanPosition.collateral_value_sol.e)
            interest  == NatShl(loanPosition.accrued_interest.m,
                                loanPosition.accrued_interest.e)
            permille  == NatDivMod(NatAdd(NatMulSmall(interest, 2000), value),
                                   NatMulSmall(value, 2))[1]
            burden    == IF value = <<>> THEN 100
                         ELSE IF NatCmp(permille, NatOf(100)) > 0 THEN 100
                         ELSE NatToInt(permille)
            factors   == scoredLoan.loan.factors
        IN  /\ IsInteger(factors.ltvProximity)
            /\ Within(factors.ltvProximity, 0, 100)
            /\ ToInt(factors.ltvProximity) = proximity
            /\ IsInteger(factors.interestBurden)
            /\ Within(factors.interestBurden, 0, 100)
            /\ ToInt(factors.interestBurden) = burden

\* C30: price momentum is in [0,100] for every price history; it is exactly
\* 50 when the history has fewer than two samples or all samples are equal,
\* >= 50 for every strictly decreasing history and <= 50 for every strictly
\* increasing one.
C30_MomentumBounds ==
    scoredLoan.by # "none" =>
        LET momentum == scoredLoan.loan.factors.priceMomentum
            pairs    == 1..(Len(loanHistory) - 1)
        IN  /\ Within(momentum, 0, 100)
            /\ (\A k \in pairs : Cmp(loanHistory[k], loanHistory[k + 1]) = 0)
                   => Eq(momentum, FromInt(50))
            /\ pairs # {} /\ (\A k \in pairs : Cmp(loanHistory[k], loanHistory[k + 1]) > 0)
                   => Cmp(momentum, FromInt(50)) >= 0
            /\ pairs # {} /\ (\A k \in pairs : Cmp(loanHistory[k], loanHistory[k + 1]) < 0)
                   => Cmp(momentum, FromInt(50)) <= 0

C30_Witness ==
    /\ scoredLoan.by = "bot"
    /\ Len(loanHistory) = 3
    /\ \A k \in 1..2 : Cmp(loanHistory[k], loanHistory[k + 1]) > 0
    /\ Cmp(scoredLoan.loan.factors.priceMomentum, FromInt(50)) > 0

====
